---- MODULE Spec2Model ----
(***************************************************************************)
(* Model of linuxdeploy-plugin-native_packages (package ldnp).             *)
(*                                                                         *)
(* The module holds several specifications over one set of variables:      *)
(*   SpecRpm   RpmPackager.generate_spec_file and generate_rpm over every  *)
(*             staging tree of a bounded family                            *)
(*   SpecDeb   DebPackager.generate_control_file (installed size and the   *)
(*             blank-line post-processing of the rendered control text)    *)
(*   SpecMeta  AbstractMetaInfo (construction from the environment and the *)
(*             mapping operations) and AbstractPackager.__init__           *)
(*   SpecMain  __main__.main, one run over the requested build types       *)
(***************************************************************************)
EXTENDS Integers, Sequences, FiniteSets, TLC

VARIABLES
    pc,                     \* position of the running operation
    fs,                     \* the filesystem: physical path -> node
    order,                  \* the order in which os.scandir lists names
    files_and_directories,  \* rpm.py:75 the glob result
    files,                  \* rpm.py:81 the list under construction
    spec_files,             \* rpm.py:128 files=list(sorted(files))
    version,                \* meta_info["version"] as a character sequence
    fixed_version,          \* rpm.py:112
    built_rpms,             \* rpm.py:170 number of archives the glob finds
    moved,                  \* rpm.py:178 shutil.move happened
    error,                  \* the exception that ended the operation, or ""
    rendered,               \* deb.py:52 the rendered control text
    control,                \* deb.py:67 the text written to DEBIAN/control
    installed_size,         \* deb.py:40
    extra_debian_files,     \* deb.py:70 LDNP_DEB_EXTRA_DEBIAN_FILES, split
    debian_dir,             \* deb.py:60 the file names in DEBIAN/
    environ,                \* os.environ.items(): (name, value) in its order
    build_type,             \* the packager: "deb" or "rpm"
    data,                   \* AbstractMetaInfo.data (UserDict's storage)
    nops,                   \* mapping operations applied so far
    packager,               \* the AbstractPackager object, once constructed
    build,                  \* __main__.py:61 the --build options, in order
    bi,                     \* position of the loop of __main__.py:93
    package_version,        \* __main__.py:68 --package-version, then the guess
    app_name,               \* __main__.py:67 --app-name
    desktop,                \* the root-level *.desktop files of the AppDir
    sign,                   \* __main__.py:62 --sign
    created,                \* the build types whose package file was written
    exit_code,              \* the exit status of the process, -1 while it runs
    log,                    \* what main has logged about packages, in order
    staging,                \* the temporary directories of the builds so far
    td_live,                \* the temporary directories that exist
    steps,                  \* the steps create_package has started, in order
    runs,                   \* completed runs of copy_appdir_contents
    first_run,              \* the filesystem and the error after the first run
    hook_i,                 \* the launcher's position in its for loop
    exported,               \* the launcher's exported APPDIR, <<>> before
    sourced,                \* the scripts the launcher has sourced, in order
    execd,                  \* the binary the launcher has exec'ed, <<>> before
    sh_status,              \* the launcher's exit status, -1 while it runs
    sh_args,                \* the arguments the launcher was started with
    arg_path,               \* the path is_any_parent_dir_a_symlink is asked about
    result,                 \* what the function under study returned
    link_root,              \* the install root create_relative_symlink works in
    link_src,               \* create_relative_symlink's src
    link_dst                \* create_relative_symlink's dst

rpmVars == <<files_and_directories, files, spec_files, version,
             fixed_version, built_rpms, moved>>

debVars == <<rendered, control, installed_size, extra_debian_files, debian_dir>>

metaVars == <<environ, build_type, data, nops, packager>>

MetaIdle ==
    /\ environ = <<>>
    /\ build_type = ""
    /\ data = <<>>
    /\ nops = 0
    /\ packager = "none"

mainVars == <<build, bi, package_version, app_name, desktop, sign, created,
              exit_code, log, staging, td_live>>

MainIdle ==
    /\ build = <<>>
    /\ bi = 0
    /\ package_version = ""
    /\ app_name = ""
    /\ desktop = <<>>
    /\ sign = FALSE
    /\ created = <<>>
    /\ exit_code = -1
    /\ log = <<>>
    /\ staging = <<>>
    /\ td_live = {}

shVars == <<hook_i, exported, sourced, execd, sh_status, sh_args>>

ShIdle ==
    /\ hook_i = 0
    /\ exported = <<>>
    /\ sourced = <<>>
    /\ execd = <<>>
    /\ sh_status = -1
    /\ sh_args = <<>>

fnVars == <<arg_path, result, link_root, link_src, link_dst>>

FnIdle ==
    /\ arg_path = <<>>
    /\ result = ""
    /\ link_root = <<>>
    /\ link_src = <<>>
    /\ link_dst = <<>>

pkgVars == <<steps, runs, first_run, shVars, fnVars>>

PkgIdle ==
    /\ steps = <<>>
    /\ runs = 0
    /\ first_run = <<>>
    /\ ShIdle
    /\ FnIdle

RpmIdle ==
    /\ files_and_directories = <<>>
    /\ files = <<>>
    /\ spec_files = <<>>
    /\ version = <<>>
    /\ fixed_version = <<>>
    /\ built_rpms = 0
    /\ moved = FALSE

DebIdle ==
    /\ rendered = <<>>
    /\ control = <<>>
    /\ installed_size = 0
    /\ extra_debian_files = <<>>
    /\ debian_dir = {}

-----------------------------------------------------------------------------
(* Bounds *)

\* Symbolic links one path resolution follows before the kernel answers
\* ELOOP (Linux: 40).
MaxFollow == 2

\* Largest number of .rpm archives the external build leaves in out_dir.
MaxRpms == 3

-----------------------------------------------------------------------------
(* The filesystem as the program sees it through pathlib, os and glob.     *)
(* A path is a sequence of names; the filesystem maps each physical path   *)
(* to a node; a symlink's target is the physical path it designates.       *)

Names == {"a", ".b"}

\* glob._ishidden: the names that start with a dot
HiddenNames == {".b", ".h", ".h.desktop"}

\* str comparison of the names ("." sorts before "a")
NameRank == [n \in Names |-> IF n \in HiddenNames THEN 1 ELSE 2]

\* the names an entry of a subdirectory may have
SubNames == {"a"}

PhysPaths == {<<x>> : x \in Names} \cup {<<x, y>> : x \in Names, y \in SubNames}

LinkTargets == {<<>>, <<"a">>, <<".b">>, <<"a", "a">>}

NoNode == [kind |-> "none", target |-> <<>>, size |-> 0]
FileNode(n) == [kind |-> "file", target |-> <<>>, size |-> n]
DirNode(n) == [kind |-> "dir", target |-> <<>>, size |-> n]
LinkNode(t) == [kind |-> "link", target |-> t, size |-> 0]

\* the value a failed path resolution yields (ENOENT, ENOTDIR, ELOOP)
Err == <<"!">>

Kind(f, p) ==
    IF p = <<>> THEN "dir"
    ELSE IF p \in DOMAIN f THEN f[p].kind
    ELSE "none"

\* Path resolution: cur is resolved already, rest is still to walk, fuel is
\* the number of symlinks that may still be followed, follow says whether a
\* symlink in the last component is followed (stat) or not (lstat). A node
\* of kind "link" holds an absolute target, one of kind "rlink" a relative
\* target, which is walked from the directory that holds the link; the name
\* ".." leads to the parent directory.
Parent(p) == IF p = <<>> THEN <<>> ELSE SubSeq(p, 1, Len(p) - 1)

Last(p) == p[Len(p)]

IsLink(k) == k \in {"link", "rlink"}

RECURSIVE Walk(_, _, _, _, _)
Walk(f, cur, rest, fuel, follow) ==
    IF rest = <<>> THEN cur
    ELSE IF Kind(f, cur) # "dir" THEN Err
    ELSE IF Head(rest) = ".." THEN Walk(f, Parent(cur), Tail(rest), fuel, follow)
    ELSE LET next == Append(cur, Head(rest)) IN
         IF Kind(f, next) = "none" THEN Err
         ELSE IF IsLink(Kind(f, next)) /\ (Tail(rest) # <<>> \/ follow)
              THEN IF fuel = 0 THEN Err
                   ELSE Walk(f, IF Kind(f, next) = "link" THEN <<>> ELSE cur,
                             f[next].target \o Tail(rest), fuel - 1, follow)
              ELSE Walk(f, next, Tail(rest), fuel, follow)

Stat(f, p) == Walk(f, <<>>, p, MaxFollow, TRUE)
Lstat(f, p) == Walk(f, <<>>, p, MaxFollow, FALSE)

\* Path.is_dir, Path.is_symlink, Path.is_file, Path.exists
is_dir(f, p) == Stat(f, p) # Err /\ Kind(f, Stat(f, p)) = "dir"
is_symlink(f, p) == Lstat(f, p) # Err /\ IsLink(Kind(f, Lstat(f, p)))
is_file(f, p) == Stat(f, p) # Err /\ Kind(f, Stat(f, p)) = "file"
lexists(f, p) == Lstat(f, p) # Err

\* Path.relative_to(root) for a path under root
relative_to(p, root) == SubSeq(p, Len(root) + 1, Len(p))

IsPrefix(r, p) == Len(r) <= Len(p) /\ SubSeq(p, 1, Len(r)) = r

\* glob.glob(root + "/**", recursive=True, include_hidden=hidden): the root
\* itself, then glob._rlistdir: every entry of a directory, and below every
\* entry that can be listed (a directory, or a symlink to one: scandir
\* follows it) its entries in turn.
RECURSIVE RListDir(_, _, _, _)
RECURSIVE IterDir(_, _, _, _, _)
RListDir(f, dir, ord, hidden) ==
    IF is_dir(f, dir) THEN IterDir(f, dir, ord, hidden, 1) ELSE <<>>

IterDir(f, dir, ord, hidden, k) ==
    IF k > Len(ord) THEN <<>>
    ELSE LET x == ord[k]
             p == Append(dir, x)
         IN  (IF lexists(f, p) /\ (hidden \/ x \notin HiddenNames)
              THEN <<p>> \o RListDir(f, p, ord, hidden)
              ELSE <<>>)
             \o IterDir(f, dir, ord, hidden, k + 1)

GlobNoHidden(f, root, ord, hidden) ==
    IF is_dir(f, root) THEN <<root>> \o RListDir(f, root, ord, FALSE) ELSE <<>>

GlobRecursive(f, root, ord, hidden) ==
    IF is_dir(f, root) THEN <<root>> \o RListDir(f, root, ord, hidden) ELSE <<>>

Range(s) == {s[i] : i \in DOMAIN s}

-----------------------------------------------------------------------------
(* Sorting of paths: sorted(files) *)

RECURSIVE PathLess(_, _)
PathLess(p, q) ==
    IF p = <<>> THEN q # <<>>
    ELSE IF q = <<>> THEN FALSE
    ELSE IF Head(p) = Head(q) THEN PathLess(Tail(p), Tail(q))
    ELSE LET rp == IF Head(p) \in Names THEN NameRank[Head(p)] ELSE 0
             rq == IF Head(q) \in Names THEN NameRank[Head(q)] ELSE 0
         IN  rp < rq

RECURSIVE Insert(_, _)
Insert(s, x) ==
    IF s = <<>> THEN <<x>>
    ELSE IF PathLess(x, Head(s)) THEN <<x>> \o s
    ELSE <<Head(s)>> \o Insert(Tail(s), x)

RECURSIVE sorted(_)
sorted(s) == IF s = <<>> THEN <<>> ELSE Insert(sorted(Tail(s)), Head(s))

-----------------------------------------------------------------------------
(* rpm.py *)

\* context.install_root_dir, the root of the staging tree
InstallRoot == <<>>

\* rpm.py:17-37. The result is "True", "False" or "AssertionError".
RECURSIVE ParentLoop(_, _, _, _)
ParentLoop(f, root_dir, parts, i) ==
    IF i >= Len(parts) THEN "False"
    ELSE LET part_path == root_dir \o SubSeq(parts, 1, i) IN
         IF ~is_dir(f, part_path) THEN "AssertionError"
         ELSE IF is_symlink(f, part_path) THEN "True"
         ELSE ParentLoop(f, root_dir, parts, i + 1)

is_any_parent_dir_a_symlink(f, root_dir, relative_file_path) ==
    LET full_path == root_dir \o relative_file_path IN
    IF is_dir(f, full_path)
    THEN IF is_symlink(f, full_path) THEN "False" ELSE "AssertionError"
    ELSE ParentLoop(f, root_dir, relative_file_path, 1)

\* rpm.py:86 the entries the loop drops first: plain directories
IsPlainDirectory(f, fd) == is_dir(f, fd) /\ ~is_symlink(f, fd)

\* rpm.py:100 "/" / relative_path
path_to_include(relative_path) == <<"/">> \o relative_path

\* rpm.py:112 version.replace("-", "_")
RECURSIVE ReplaceDash(_)
ReplaceDash(v) ==
    IF v = <<>> THEN <<>>
    ELSE <<IF Head(v) = "-" THEN "_" ELSE Head(v)>> \o ReplaceDash(Tail(v))

Versions == {<<"1">>, <<"1", "-", "2">>}

\* The staging trees: every assignment of nodes to the physical paths in
\* which an entry exists only inside a real directory.
RpmNodes == {NoNode, FileNode(0), DirNode(0)} \cup {LinkNode(t) : t \in LinkTargets}

WellFormed(f) ==
    \A p \in DOMAIN f :
        (Len(p) > 1 /\ f[p].kind # "none") => f[SubSeq(p, 1, Len(p) - 1)].kind = "dir"

RpmTrees == {f \in [PhysPaths -> RpmNodes] : WellFormed(f)}

ScanOrders == {<<"a", ".b">>, <<".b", "a">>}

InitRpm ==
    /\ pc = "generate_spec_file"
    /\ fs \in RpmTrees
    /\ order \in ScanOrders
    /\ version \in Versions
    /\ files_and_directories = <<>>
    /\ files = <<>>
    /\ spec_files = <<>>
    /\ fixed_version = <<>>
    /\ built_rpms = 0
    /\ moved = FALSE
    /\ error = ""
    /\ DebIdle
    /\ MetaIdle
    /\ MainIdle
    /\ PkgIdle

\* rpm.py:83-104 the loop over the glob result, from entry i on, with the
\* list built so far: the list at the end, or the assertion that failed
RECURSIVE SpecFileLoop(_, _, _, _)
SpecFileLoop(f, fds, i, acc) ==
    IF i > Len(fds) THEN [files |-> acc, error |-> ""]
    ELSE LET fd == fds[i]
             relative_path == relative_to(fd, InstallRoot)
             r == is_any_parent_dir_a_symlink(f, InstallRoot, relative_path)
         IN  IF IsPlainDirectory(f, fd) THEN SpecFileLoop(f, fds, i + 1, acc)
             ELSE IF r = "AssertionError"
                  THEN [files |-> acc, error |-> "AssertionError:parent"]
             ELSE IF r = "True" THEN SpecFileLoop(f, fds, i + 1, acc)
             ELSE IF path_to_include(relative_path) \in Range(acc)
                  THEN [files |-> acc, error |-> "AssertionError:duplicate"]
             ELSE SpecFileLoop(f, fds, i + 1, Append(acc, path_to_include(relative_path)))

\* rpm.py:74-134 generate_spec_file: the glob over the install root, the
\* loop, the version fix and the rendering of the sorted list
GenerateSpecFile ==
    /\ pc = "generate_spec_file"
    /\ \E fds \in {GlobRecursive(fs, InstallRoot, order, TRUE)} :
       \E r \in {SpecFileLoop(fs, fds, 1, <<>>)} :
           /\ files_and_directories' = fds
           /\ files' = r.files
           /\ error' = r.error
           /\ IF r.error # ""
              THEN /\ pc' = "failed"
                   /\ UNCHANGED <<spec_files, fixed_version>>
              ELSE /\ pc' = "generate_rpm"
                   /\ fixed_version' = ReplaceDash(version)
                   /\ spec_files' = sorted(r.files)
    /\ UNCHANGED <<fs, order, version, built_rpms, moved, debVars, pkgVars, metaVars, mainVars>>

\* rpm.py:170-178 what generate_rpm does with n archives found in out_dir:
\* the error it raises, or "" when it moves built_rpms[0] to out_path
CollectBuiltRpms(n) ==
    IF n = 0 THEN "ValueError:no built RPM found"
    ELSE IF n > 2 THEN "ValueError:more than one RPM built"
    ELSE ""

\* rpm.py:136-178 generate_rpm: rpmbuild exits with status and leaves n
\* archives in out_dir
GenerateRpm ==
    /\ pc = "generate_rpm"
    /\ \E status \in {0, 1}, n \in 0..MaxRpms :
         IF status # 0
         THEN /\ error' = "CalledProcessError"
              /\ pc' = "failed"
              /\ UNCHANGED <<built_rpms, moved>>
         ELSE /\ built_rpms' = n
              /\ error' = CollectBuiltRpms(n)
              /\ moved' = (CollectBuiltRpms(n) = "")
              /\ pc' = IF CollectBuiltRpms(n) = "" THEN "done" ELSE "failed"
    /\ UNCHANGED <<fs, order, files_and_directories, files, spec_files,
                   version, fixed_version, debVars, pkgVars, metaVars,
                   mainVars>>

NextRpm == GenerateSpecFile \/ GenerateRpm

vars == <<pc, fs, order, error, rpmVars, debVars, metaVars, mainVars, pkgVars>>

SpecRpm == InitRpm /\ [][NextRpm]_vars

-----------------------------------------------------------------------------
(* Claims about the RPM file list and generate_rpm, checked under SpecRpm *)

\* generate_spec_file returned: the list was rendered into package.spec
SpecFileWritten ==
    /\ pc \in {"generate_rpm", "done", "failed"}
    /\ error \notin {"AssertionError:parent", "AssertionError:duplicate"}

\* the install-root-relative path of a listed entry
ListedPath(entry) == Tail(entry)

HasSymlinkedAncestor(f, rel) ==
    \E k \in 1..(Len(rel) - 1) : is_symlink(f, InstallRoot \o SubSeq(rel, 1, k))

\* C1: no path of the RPM file list has a proper ancestor directory below
\* the install root that is a symlink, and so no listed entry lies
\* underneath another listed entry, whatever kind the entry is of.
C1_NoListedPathBelowSymlink ==
    SpecFileWritten =>
        /\ \A i \in DOMAIN spec_files :
               ~HasSymlinkedAncestor(fs, ListedPath(spec_files[i]))
        /\ \A i, j \in DOMAIN spec_files :
               i # j => ~IsPrefix(spec_files[i], spec_files[j])

\* the entries C2 is about: regular files and symlinks with no symlinked
\* ancestor, that is, the physical entries of the tree of these two kinds
ExpectedEntries == {p \in PhysPaths : fs[p].kind \in {"file", "link"}}

Occurrences(list, x) == Cardinality({i \in DOMAIN list : list[i] = x})

\* C2: the RPM file list holds exactly once every entry under the install
\* root (hidden ones too) that is a regular file or a symlink and has no
\* symlinked ancestor, holds no plain directory, and the duplicate
\* assertion of generate_spec_file never fails.
C2_FileListComplete ==
    /\ error # "AssertionError:duplicate"
    /\ SpecFileWritten =>
        /\ \A p \in ExpectedEntries :
               /\ Occurrences(spec_files, path_to_include(p)) = 1
               /\ Occurrences(files, path_to_include(p)) = 1
        /\ \A i \in DOMAIN spec_files :
               ~IsPlainDirectory(fs, InstallRoot \o ListedPath(spec_files[i]))

\* a written list over a tree with a plain directory that holds a hidden
\* file, and a symlink beside it
C2_Witness ==
    /\ SpecFileWritten
    /\ fs[<<".b">>].kind = "dir"
    /\ fs[<<".b", "a">>].kind = "file"
    /\ fs[<<"a">>].kind = "link"
    /\ <<"/", ".b", "a">> \in Range(spec_files)
    /\ <<"/", "a">> \in Range(spec_files)

\* C3: generate_rpm succeeds, and moves an archive to out_path, only when
\* the build left exactly one archive; none and more than one are errors.
C3_ExactlyOneArchive ==
    /\ pc = "done" => built_rpms = 1
    /\ moved => built_rpms = 1

-----------------------------------------------------------------------------
(* deb.py *)

\* The filesystem of generate_control_file: the AppDir at /app, holding one
\* regular file (f, or the hidden .h) and the symlink l; outside of it /ext,
\* which l may point to: nothing, a file, or a directory holding the file g.
AppDirPath == <<"app">>

DebPaths == {<<"app">>, <<"app", "f">>, <<"app", ".h">>, <<"app", "l">>,
             <<"ext">>, <<"ext", "g">>}

\* what os.path.getsize answers for a directory depends on the filesystem
DirSizes == {0, 4096}
FileSizes == {0, 1, 1024, 1025, 2048}
TargetSizes == {0, 4096}

DebTree(dsize, fname, n, ext, g) ==
    [p \in DebPaths |->
        IF p = <<"app">> THEN DirNode(dsize)
        ELSE IF p = <<"app", fname>> THEN FileNode(n)
        ELSE IF p = <<"app", "l">> THEN LinkNode(<<"ext">>)
        ELSE IF p = <<"ext">> THEN ext
        ELSE IF p = <<"ext", "g">> THEN g
        ELSE NoNode]

DebTrees ==
    {DebTree(d, fname, n, NoNode, NoNode) :
        d \in DirSizes, fname \in {"f", ".h"}, n \in FileSizes}
    \cup {DebTree(d, fname, n, FileNode(m), NoNode) :
        d \in DirSizes, fname \in {"f", ".h"}, n \in FileSizes, m \in TargetSizes}
    \cup {DebTree(d, fname, n, DirNode(d), FileNode(m)) :
        d \in DirSizes, fname \in {"f", ".h"}, n \in FileSizes, m \in TargetSizes}

DebScanOrders == {<<"f", ".h", "l", "g">>, <<"g", "l", ".h", "f">>}

\* deb.py:32-36 get_size; os.path.getsize follows symlinks
get_size(f, path) ==
    IF is_symlink(f, path) THEN 0
    ELSE IF Stat(f, path) = Err THEN 0
    ELSE f[Stat(f, path)].size

RECURSIVE SumSizes(_, _)
SumSizes(f, paths) ==
    IF paths = <<>> THEN 0 ELSE get_size(f, Head(paths)) + SumSizes(f, Tail(paths))

\* deb.py:47
KiB == 1024

\* math.ceil(total / 1024)
CeilDiv(total, d) == (total + d - 1) \div d

\* deb.py:40-48; the glob of line 44 does not pass include_hidden
ComputeInstalledSize(f, ord) ==
    CeilDiv(SumSizes(f, GlobRecursive(f, AppDirPath, ord, FALSE)), KiB)

\* rendered.replace("\n\n", "\n"): non-overlapping matches, left to right
RECURSIVE ReplaceDualNewline(_)
ReplaceDualNewline(t) ==
    IF Len(t) < 2 THEN t
    ELSE IF t[1] = "\n" /\ t[2] = "\n"
         THEN <<"\n">> \o ReplaceDualNewline(SubSeq(t, 3, Len(t)))
         ELSE <<t[1]>> \o ReplaceDualNewline(Tail(t))

ContainsDualNewline(t) ==
    \E i \in 1..(Len(t) - 1) : t[i] = "\n" /\ t[i + 1] = "\n"

\* deb.py:55-58 the while loop and the appended newline
RECURSIVE CollapseLoop(_)
CollapseLoop(t) ==
    IF ContainsDualNewline(t) THEN CollapseLoop(ReplaceDualNewline(t)) ELSE t

PostProcess(t) == CollapseLoop(t) \o <<"\n">>

\* Length of the rendered texts the model covers
MaxText == 4

Chars == {"x", "\n"}

RenderedTexts == UNION {[1..n -> Chars] : n \in 0..MaxText}

ExtraFiles == {<<>>, <<"postinst">>}

InitDeb ==
    /\ pc = "generate_control_file"
    /\ fs \in DebTrees
    /\ order \in DebScanOrders
    /\ rendered \in RenderedTexts
    /\ extra_debian_files \in ExtraFiles
    /\ control = <<>>
    /\ installed_size = 0
    /\ debian_dir = {}
    /\ error = ""
    /\ RpmIdle
    /\ MetaIdle
    /\ MainIdle
    /\ PkgIdle

\* deb.py:31-75 generate_control_file
GenerateControlFile ==
    /\ pc = "generate_control_file"
    /\ installed_size' = ComputeInstalledSize(fs, order)
    /\ control' = PostProcess(rendered)
    /\ debian_dir' = {"control"} \cup Range(extra_debian_files)
    /\ pc' = "done"
    /\ UNCHANGED <<fs, order, rendered, extra_debian_files, error, rpmVars, pkgVars, metaVars,
                   mainVars>>

NextDeb == GenerateControlFile

SpecDeb == InitDeb /\ [][NextDeb]_vars

\* the size of the one regular file of the AppDir
RegularFileSize ==
    IF fs[<<"app", "f">>].kind = "file" THEN fs[<<"app", "f">>].size
    ELSE fs[<<"app", ".h">>].size

\* C4: for an AppDir that holds one regular file of n bytes and one
\* symlink, the installed size is ceil(n / 1024), whatever the symlink
\* points to.
C4_InstalledSize ==
    pc = "done" => installed_size = CeilDiv(RegularFileSize, KiB)

\* a text with no empty line: it does not start with a newline and no
\* newline follows another
BlankLineFree(t) == (Len(t) > 1 => t[1] # "\n") /\ ~ContainsDualNewline(t)

EndsWithNewline(t) == t # <<>> /\ t[Len(t)] = "\n"

\* C5: the text written to DEBIAN/control has no blank line and ends with
\* exactly one newline, for every rendered text.
C5_NoBlankLineOneTrailingNewline ==
    pc = "done" => BlankLineFree(control) /\ EndsWithNewline(control)

-----------------------------------------------------------------------------
(* abstractpackager.py: AbstractMetaInfo and AbstractPackager.__init__      *)
(* A name (of an environment variable, of a metadata key) is the sequence   *)
(* of its parts between underscores: LDNP_META_DEB_VERSION is               *)
(* <<"LDNP", "META", "DEB", "VERSION">>.                                    *)

\* str.upper on one part of a name
UpperPart(t) ==
    CASE t \in {"version", "Version"} -> "VERSION"
      [] t = "package" -> "PACKAGE"
      [] t = "name" -> "NAME"
      [] t = "filename" -> "FILENAME"
      [] t = "prefix" -> "PREFIX"
      [] t = "description" -> "DESCRIPTION"
      [] t = "short" -> "SHORT"
      [] OTHER -> t

upper(key) == [i \in DOMAIN key |-> UpperPart(key[i])]

\* abstractpackager.py:62 env_var_prefix = "LDNP_META_"
env_var_prefix == <<"LDNP", "META">>

\* abstractpackager.py:52-54, deb.py:17-19, rpm.py:40-42
packager_prefix(bt) == IF bt = "deb" THEN "DEB" ELSE "RPM"

\* abstractpackager.py:63
packager_env_var_prefix(bt) == env_var_prefix \o <<packager_prefix(bt)>>

\* name.startswith(prefix + "_")
startswith(name, prefix) ==
    Len(name) > Len(prefix) /\ SubSeq(name, 1, Len(prefix)) = prefix

\* name.removeprefix(prefix + "_")
removeprefix(name, prefix) == SubSeq(name, Len(prefix) + 1, Len(name))

\* a value no string equals: Python's None, and a failed lookup
None == "<None>"
KeyError == "<KeyError>"

\* bool(value)
Truthy(v) == v \notin {"", None, KeyError}

\* abstractpackager.py:77-79 __setitem__
setitem(d, key, value) ==
    [k \in DOMAIN d \cup {upper(key)} |-> IF k = upper(key) THEN value ELSE d[k]]

\* abstractpackager.py:81-90 __getitem__
getitem(d, identifier) ==
    IF upper(identifier) \in DOMAIN d THEN d[upper(identifier)] ELSE KeyError

\* abstractpackager.py:93-97 get
get(d, key, default) ==
    IF getitem(d, key) = KeyError THEN default ELSE getitem(d, key)

\* UserDict.__contains__, which AbstractMetaInfo (abstractpackager.py:20)
\* inherits: key in self.data
contains(d, key) == key \in DOMAIN d

\* abstractpackager.py:100-104 setdefault: the membership test has no effect
setdefault(d, key, default) == setitem(d, key, default)

\* abstractpackager.py:67-75 the loop of __init__ over os.environ.items()
RECURSIVE MetaInfoLoop(_, _, _, _)
MetaInfoLoop(d, env, i, bt) ==
    IF i > Len(env) THEN d
    ELSE LET name == env[i].name
             value == env[i].value
         IN  IF startswith(name, env_var_prefix)
             THEN LET fixed_name ==
                          IF startswith(name, packager_env_var_prefix(bt))
                          THEN removeprefix(name, packager_env_var_prefix(bt))
                          ELSE removeprefix(name, env_var_prefix)
                  IN  MetaInfoLoop(setitem(d, fixed_name, value), env, i + 1, bt)
             ELSE MetaInfoLoop(d, env, i + 1, bt)

\* abstractpackager.py:56-75 AbstractMetaInfo.__init__
MetaInfoInit(env, bt) == MetaInfoLoop(<<>>, env, 1, bt)

\* abstractpackager.py:113-115 the three assertions of
\* AbstractPackager.__init__: "" when the packager is constructed
PackagerInitNoPrefixCheck(d) ==
    IF getitem(d, <<"package", "name">>) = KeyError THEN "KeyError"
    ELSE IF ~Truthy(getitem(d, <<"package", "name">>)) THEN "AssertionError"
    ELSE IF getitem(d, <<"version">>) = KeyError THEN "KeyError"
    ELSE IF ~Truthy(getitem(d, <<"version">>)) THEN "AssertionError"
    ELSE ""

PackagerInit(d) ==
    IF getitem(d, <<"package", "name">>) = KeyError THEN "KeyError"
    ELSE IF ~Truthy(getitem(d, <<"package", "name">>)) THEN "AssertionError"
    ELSE IF getitem(d, <<"version">>) = KeyError THEN "KeyError"
    ELSE IF ~Truthy(getitem(d, <<"version">>)) THEN "AssertionError"
    ELSE IF getitem(d, <<"filename", "prefix">>) = KeyError THEN "KeyError"
    ELSE IF ~Truthy(getitem(d, <<"filename", "prefix">>)) THEN "AssertionError"
    ELSE ""

\* Number of variables in the environment
MaxEnv == 2

\* Number of mapping operations applied to one AbstractMetaInfo
MaxOps == 2

EnvNames ==
    {<<"LDNP", "META", "VERSION">>,
     <<"LDNP", "META", "DEB", "VERSION">>,
     <<"LDNP", "META", "RPM", "VERSION">>,
     <<"LDNP", "META", "PACKAGE", "NAME">>,
     <<"HOME">>}

EnvValues == {"", "1", "2"}

BuildTypes == {"deb", "rpm"}

EnvEntries == [name : EnvNames, value : EnvValues]

Environments ==
    {e \in UNION {[1..n -> EnvEntries] : n \in 0..MaxEnv} :
        \A i, j \in DOMAIN e : i # j => e[i].name # e[j].name}

\* the keys the callers of the mapping use, in the spellings they use
OpKeys == {<<"version">>, <<"VERSION">>, <<"package", "name">>,
           <<"filename", "prefix">>}

OpValues == {"", "1"}

InitMeta ==
    /\ pc = "make_meta_info"
    /\ environ \in Environments
    /\ build_type \in BuildTypes
    /\ data = <<>>
    /\ nops = 0
    /\ packager = "none"
    /\ error = ""
    /\ fs = <<>>
    /\ order = <<>>
    /\ RpmIdle
    /\ DebIdle
    /\ MainIdle
    /\ PkgIdle

\* __main__.py:18-28 make_meta_info: DebMetaInfo() or RpmMetaInfo()
MakeMetaInfo ==
    /\ pc = "make_meta_info"
    /\ data' = MetaInfoInit(environ, build_type)
    /\ pc' = "meta_info"
    /\ UNCHANGED <<environ, build_type, nops, packager, error, fs, order, rpmVars, pkgVars,
                   debVars, mainVars>>

\* meta_info[key] = value
SetItem ==
    /\ pc = "meta_info"
    /\ nops < MaxOps
    /\ \E key \in OpKeys, value \in OpValues : data' = setitem(data, key, value)
    /\ nops' = nops + 1
    /\ UNCHANGED <<pc, environ, build_type, packager, error, fs, order, rpmVars, pkgVars,
                   debVars, mainVars>>

\* meta_info.setdefault(key, default)
SetDefault ==
    /\ pc = "meta_info"
    /\ nops < MaxOps
    /\ \E key \in OpKeys, default \in OpValues \cup {None} :
           data' = setdefault(data, key, default)
    /\ nops' = nops + 1
    /\ UNCHANGED <<pc, environ, build_type, packager, error, fs, order, rpmVars, pkgVars,
                   debVars, mainVars>>

\* __main__.py:31-43 make_packager and abstractpackager.py:108-119
\* AbstractPackager.__init__
MakePackager ==
    /\ pc = "meta_info"
    /\ error' = PackagerInit(data)
    /\ packager' = IF PackagerInit(data) = "" THEN "constructed" ELSE "none"
    /\ pc' = IF PackagerInit(data) = "" THEN "packager" ELSE "failed"
    /\ UNCHANGED <<environ, build_type, data, nops, fs, order, rpmVars, pkgVars, debVars,
                   mainVars>>

\* deb.py:90-106, rpm.py:180-196: create_package is a method of the
\* constructed packager; its first step is copy_appdir_contents
CreatePackage ==
    /\ pc = "packager"
    /\ packager = "constructed"
    /\ pc' = "copy_appdir_contents"
    /\ UNCHANGED <<environ, build_type, data, nops, packager, error, fs, order,
                   rpmVars, pkgVars, debVars, mainVars>>

NextMeta == MakeMetaInfo \/ SetItem \/ SetDefault \/ MakePackager \/ CreatePackage

SpecMeta == InitMeta /\ [][NextMeta]_vars

IsSet(env, name) == \E i \in DOMAIN env : env[i].name = name

EnvValue(env, name) == env[CHOOSE i \in DOMAIN env : env[i].name = name].value

MetaIds == {<<"VERSION">>, <<"PACKAGE", "NAME">>}

\* C6: when LDNP_META_<PACKAGER>_<ID> and LDNP_META_<ID> are both set, the
\* metadata map constructed for that packager holds the packager-specific
\* value for <ID>, whatever the order of the environment.
C6_PackagerSpecificWins ==
    (pc = "meta_info" /\ nops = 0) =>
        \A id \in MetaIds :
            (/\ IsSet(environ, packager_env_var_prefix(build_type) \o id)
             /\ IsSet(environ, env_var_prefix \o id))
            => getitem(data, id)
                 = EnvValue(environ, packager_env_var_prefix(build_type) \o id)

\* C8: keys that differ only in letter case are the same key for item
\* assignment, item lookup, get, setdefault and the membership test.
C8_CaseInsensitive ==
    pc = "meta_info" =>
        \A k1, k2 \in OpKeys :
            upper(k1) = upper(k2) =>
                /\ getitem(data, k1) = getitem(data, k2)
                /\ get(data, k1, None) = get(data, k2, None)
                /\ contains(data, k1) = contains(data, k2)
                /\ \A v \in OpValues :
                       /\ setitem(data, k1, v) = setitem(data, k2, v)
                       /\ setdefault(data, k1, v) = setdefault(data, k2, v)

RequiredKeys == {<<"PACKAGE", "NAME">>, <<"VERSION">>, <<"FILENAME", "PREFIX">>}

\* C9: a packager is constructed only when package_name, version and
\* filename_prefix are present and non-empty in the metadata map; otherwise
\* the construction fails, and no step of create_package ever starts.
C9_RequiredKeys ==
    /\ (packager = "constructed" \/ pc \in {"packager", "copy_appdir_contents"}) =>
           \A k \in RequiredKeys : k \in DOMAIN data /\ data[k] \notin {"", None}
    /\ (pc = "failed") =>
           /\ packager = "none"
           /\ \E k \in RequiredKeys : k \notin DOMAIN data \/ data[k] \in {"", None}

\* a packager constructed from a map that two assignments completed, whose
\* create_package has started
C9_Witness ==
    /\ pc = "copy_appdir_contents"
    /\ packager = "constructed"
    /\ nops = 2

\* the other case of C9: a construction that failed on a map that holds all
\* three keys, one of them empty
C9_ConstructionFailed ==
    /\ pc = "failed"
    /\ <<"VERSION">> \in DOMAIN data
    /\ <<"PACKAGE", "NAME">> \in DOMAIN data
    /\ <<"FILENAME", "PREFIX">> \in DOMAIN data

-----------------------------------------------------------------------------
(* appdir.py and __main__.py *)

\* Number of --build options of one run
MaxBuilds == 2

\* Number of root-level *.desktop files of the AppDir
MaxDesktop == 2

\* The root desktop files: their number and, when there is exactly one,
\* its X-AppImage-Version and the words of its Exec value
Desktops ==
    {[count |-> n, x_appimage_version |-> "", exec |-> <<>>] :
        n \in (0..MaxDesktop) \ {1}}
    \cup [count : {1}, x_appimage_version : {"", "3"},
          exec : {<<>>, <<"tool">>, <<"tool", "%f">>}]

\* appdir.py:27-33 root_desktop_file: the assertion on the number of files
root_desktop_file(d) == IF d.count = 1 THEN "" ELSE "AssertionError"

\* appdir.py:53-61 guess_package_version: the version, or the error raised
guess_package_version(d) ==
    IF root_desktop_file(d) # "" THEN root_desktop_file(d)
    ELSE IF d.x_appimage_version # "" THEN d.x_appimage_version
    ELSE "ValueError"

\* appdir.py:35-39 guess_package_name: shlex.split(exec_name)[0], or the
\* error raised
guess_package_name(d) ==
    IF root_desktop_file(d) # "" THEN root_desktop_file(d)
    ELSE IF d.exec = <<>> THEN "AssertionError"
    ELSE d.exec[1]

Errors == {"AssertionError", "ValueError", "KeyError", "IndexError"}

Builds == UNION {[1..n -> BuildTypes] : n \in 1..MaxBuilds}

FullMainEnv ==
    << [name |-> <<"LDNP", "META", "VERSION">>, value |-> "9"],
       [name |-> <<"LDNP", "META", "DEB", "PACKAGE", "NAME">>, value |-> "debpkg"],
       [name |-> <<"LDNP", "META", "PACKAGE", "NAME">>, value |-> "pkg"],
       [name |-> <<"LDNP", "META", "DESCRIPTION">>, value |-> "text"] >>

RECURSIVE PickEnv(_, _, _)
PickEnv(full, S, i) ==
    IF i > Len(full) THEN <<>>
    ELSE (IF i \in S THEN <<full[i]>> ELSE <<>>) \o PickEnv(full, S, i + 1)

MainEnvironments == {PickEnv(FullMainEnv, S, 1) : S \in SUBSET (1..Len(FullMainEnv))}

InitMain ==
    /\ pc = "main"
    /\ environ \in MainEnvironments
    /\ build \in Builds
    /\ package_version \in {"", "1"}
    /\ app_name \in {"", "app"}
    /\ desktop \in Desktops
    /\ sign \in BOOLEAN
    /\ bi = 0
    /\ build_type = ""
    /\ data = <<>>
    /\ nops = 0
    /\ packager = "none"
    /\ created = <<>>
    /\ exit_code = -1
    /\ log = <<>>
    /\ staging = <<>>
    /\ td_live = {}
    /\ error = ""
    /\ fs = <<>>
    /\ order = <<>>
    /\ RpmIdle
    /\ DebIdle
    /\ PkgIdle

\* an exception nothing catches ends the process with status 1
Crash(err) ==
    /\ pc' = "crashed"
    /\ error' = err
    /\ exit_code' = 1

\* __main__.py:84-91 the package version: the option, or the guess
ResolveVersion ==
    /\ pc = "main"
    /\ IF Truthy(package_version)
       THEN /\ pc' = "prepare_meta"
            /\ bi' = 1
            /\ UNCHANGED <<package_version, error, exit_code>>
       ELSE IF guess_package_version(desktop) = "ValueError"
       THEN /\ pc' = "exited"
            /\ exit_code' = 2
            /\ error' = "Could not guess version and user did not specify one"
            /\ UNCHANGED <<package_version, bi>>
       ELSE IF guess_package_version(desktop) \in Errors
       THEN /\ Crash(guess_package_version(desktop))
            /\ UNCHANGED <<package_version, bi>>
       ELSE /\ package_version' = guess_package_version(desktop)
            /\ pc' = "prepare_meta"
            /\ bi' = 1
            /\ UNCHANGED <<error, exit_code>>
    /\ UNCHANGED <<fs, order, rpmVars, pkgVars, debVars, metaVars, build, app_name,
                   desktop, sign, created, log, staging, td_live>>

\* __main__.py:94-95 the metadata of a build, with the version set
WithVersion(d, v) == setitem(d, <<"version">>, v)

\* __main__.py:112-114
WithFilenamePrefix(d) ==
    IF ~Truthy(get(d, <<"filename", "prefix">>, None))
    THEN setitem(d, <<"filename", "prefix">>, getitem(d, <<"package", "name">>))
    ELSE d

\* __main__.py:94-114 the metadata map of the build type at position bi
PrepareMeta ==
    /\ pc = "prepare_meta"
    /\ build_type' = build[bi]
    /\ \E d1 \in {WithVersion(MetaInfoInit(environ, build[bi]), package_version)} :
         IF Truthy(app_name) /\ ~Truthy(get(d1, <<"package", "name">>, None))
         THEN /\ data' = WithFilenamePrefix(setitem(d1, <<"package", "name">>, app_name))
              /\ pc' = "make_packager"
              /\ UNCHANGED <<error, exit_code>>
         ELSE IF Truthy(get(d1, <<"package", "name">>, None))
         THEN /\ data' = WithFilenamePrefix(d1)
              /\ pc' = "make_packager"
              /\ UNCHANGED <<error, exit_code>>
         ELSE IF guess_package_name(desktop) \in Errors
         THEN /\ data' = d1
              /\ Crash(guess_package_name(desktop))
         ELSE IF ~Truthy(guess_package_name(desktop))
         THEN /\ data' = d1
              /\ pc' = "exited"
              /\ exit_code' = 2
              /\ error' = "No package name provided and guessing failed"
         ELSE /\ data' = WithFilenamePrefix(
                            setitem(d1, <<"package", "name">>, guess_package_name(desktop)))
              /\ pc' = "make_packager"
              /\ UNCHANGED <<error, exit_code>>
    /\ UNCHANGED <<fs, order, rpmVars, pkgVars, debVars, environ, nops, packager, build, bi,
                   package_version, app_name, desktop, sign, created, log, staging,
                   td_live>>

\* tempfile.TemporaryDirectory: mkdtemp makes a directory that did not exist
mkdtemp(made) == Len(made) + 1

cleanup_skipped(live, dir) == live

\* TemporaryDirectory.__exit__: the directory is removed when the with block
\* is left, by its end or by an exception
cleanup(live, dir) == live \ {dir}

\* __main__.py:116-117 the temporary directory and make_packager
MakePackagerMain ==
    /\ pc = "make_packager"
    /\ staging' = Append(staging, mkdtemp(staging))
    /\ IF PackagerInit(data) = ""
       THEN /\ packager' = "constructed"
            /\ pc' = "descriptions"
            /\ td_live' = td_live \cup {mkdtemp(staging)}
            /\ UNCHANGED <<error, exit_code>>
       ELSE /\ Crash(PackagerInit(data))
            /\ td_live' = cleanup(td_live \cup {mkdtemp(staging)}, mkdtemp(staging))
            /\ UNCHANGED packager
    /\ UNCHANGED <<fs, order, rpmVars, pkgVars, debVars, environ, build_type, data, nops,
                   build, bi, package_version, app_name, desktop, sign, created, log>>

\* __main__.py:119-135 description and short description fall back on each
\* other
WithDescriptions(d) ==
    LET description == get(d, <<"description">>, None)
        short_description == get(d, <<"short", "description">>, None)
        desc2 == IF Truthy(short_description) /\ ~Truthy(description)
                 THEN short_description ELSE description
        short2 == IF Truthy(description) /\ ~Truthy(short_description)
                  THEN description ELSE short_description
        d1 == IF Truthy(desc2) THEN setitem(d, <<"description">>, desc2) ELSE d
    IN  IF Truthy(short2) THEN setitem(d1, <<"short", "description">>, short2) ELSE d1

\* __main__.py:119-144
SetDescriptions ==
    /\ pc = "descriptions"
    /\ data' = WithDescriptions(data)
    /\ pc' = "create_package"
    /\ UNCHANGED <<fs, order, rpmVars, pkgVars, debVars, environ, build_type, nops, packager,
                   error, mainVars>>

\* the end of the with block and of an iteration of the loop of
\* __main__.py:93, and line 156; logged is the log of the iteration
NextBuild(logged) ==
    /\ td_live' = cleanup(td_live, Last(staging))
    /\ IF bi < Len(build)
       THEN /\ bi' = bi + 1
            /\ pc' = "prepare_meta"
            /\ packager' = "none"
            /\ log' = logged
            /\ UNCHANGED exit_code
       ELSE /\ pc' = "finished"
            /\ exit_code' = 0
            /\ log' = Append(logged, "Done!")
            /\ UNCHANGED <<bi, packager>>

\* __main__.py:146-150 create_package and the assertion on its result: a
\* step of the packager raises, or the build tool has run (rpmbuild leaving
\* n archives, which generate_rpm counts) and the packager returns, with
\* the file written or without a file
CreatePackageMain ==
    /\ pc = "create_package"
    /\ \E outcome \in {"ok", "raise", "nofile"}, n \in 0..MaxRpms :
         LET counted == build_type = "rpm" /\ outcome # "raise"
             err == IF outcome = "raise" THEN "CalledProcessError"
                    ELSE IF counted /\ CollectBuiltRpms(n) # "" THEN CollectBuiltRpms(n)
                    ELSE IF outcome = "nofile" THEN "AssertionError"
                    ELSE ""
         IN  /\ built_rpms' = IF counted THEN n ELSE built_rpms
             /\ IF err = ""
                THEN /\ created' = Append(created, build_type)
                     /\ IF sign
                        THEN /\ pc' = "sign_package"
                             /\ log' = Append(log, build_type)
                             /\ UNCHANGED <<bi, packager, exit_code, td_live>>
                        ELSE NextBuild(Append(log, build_type))
                     /\ UNCHANGED error
                ELSE /\ Crash(err)
                     /\ td_live' = cleanup(td_live, Last(staging))
                     /\ UNCHANGED <<created, bi, packager, log>>
    /\ UNCHANGED <<fs, order, files_and_directories, files, spec_files, version,
                   fixed_version, moved, pkgVars, debVars, environ, build_type, data,
                   nops, build, package_version, app_name, desktop, sign, staging>>

\* __main__.py:152-154 sign_package: the signing tool exits with status
SignPackage ==
    /\ pc = "sign_package"
    /\ \E status \in {0, 1} :
         IF status = 0
         THEN NextBuild(log) /\ UNCHANGED error
         ELSE /\ Crash("CalledProcessError")
              /\ td_live' = cleanup(td_live, Last(staging))
              /\ UNCHANGED <<bi, packager, log>>
    /\ UNCHANGED <<fs, order, rpmVars, pkgVars, debVars, environ, build_type, data, nops,
                   build, package_version, app_name, desktop, sign, created, staging>>

NextMain ==
    \/ ResolveVersion
    \/ PrepareMeta
    \/ MakePackagerMain
    \/ SetDescriptions
    \/ CreatePackageMain
    \/ SignPackage

SpecMain == InitMain /\ [][NextMain]_vars

\* C7: after main has prepared the metadata map of a build, every key the
\* environment provided still holds the environment's value.
C7_EnvironmentWins ==
    pc = "create_package" =>
        \A k \in DOMAIN MetaInfoInit(environ, build_type) :
            data[k] = MetaInfoInit(environ, build_type)[k]

\* C10: on an AppDir whose number of root-level desktop files is not one,
\* main aborts before any package is created, whatever the options and the
\* metadata variables are.
C10_NoPackageWithoutRootDesktopFile ==
    desktop.count # 1 => created = <<>> /\ pc # "finished"

\* main is at a point where the process has ended
Terminated == pc \in {"crashed", "exited", "finished"}

\* what main logs only when the archive file exists: a package reported
\* as built was written, and "Done!" comes after every build wrote its file
ReportsOnlyWrittenPackages ==
    /\ \A i \in DOMAIN log : log[i] # "Done!" => log[i] \in Range(created)
    /\ "Done!" \in Range(log) => Len(created) = Len(build)

\* C17: whenever a step of a build fails (a configuration error, an error
\* raised, a wrong archive count, a non-zero exit of a tool), the process
\* ends with a non-zero exit status, and main reports a package as built or
\* logs completion only when the archive file exists.
C17_FailureExitsNonZero ==
    /\ error # "" => (pc \in {"crashed", "exited"} /\ exit_code \in {1, 2})
    /\ built_rpms > 1 => (pc = "crashed" /\ exit_code = 1)
    /\ pc \in {"crashed", "exited"} => "Done!" \notin Range(log)
    /\ ReportsOnlyWrittenPackages

\* the directory of the build that is under way
InWithBlock == pc \in {"descriptions", "create_package", "sign_package"}

\* C18: every build gets a temporary directory that did not exist before;
\* builds run one after another, so at most one such directory exists, and
\* it is the one of the build under way; no directory serves two builds;
\* once a build has finished, by its end or by an error, its directory is
\* gone.
C18_FreshStagingDirectory ==
    /\ \A i, j \in DOMAIN staging : i # j => staging[i] # staging[j]
    /\ Cardinality(td_live) <= 1
    /\ InWithBlock => (td_live = {Last(staging)} /\ Len(staging) = bi)
    /\ ~InWithBlock => td_live = {}
    /\ Len(staging) <= Len(build)

\* a second build under way in its own directory, the first one's removed
C18_Witness ==
    /\ pc = "create_package"
    /\ bi = 2
    /\ staging = <<1, 2>>
    /\ td_live = {2}
    /\ created = <<"deb">>

\* a run that removed the directory of a build that failed after an earlier
\* build had succeeded
C18_WitnessFailed ==
    /\ pc = "crashed"
    /\ Len(staging) = 2
    /\ td_live = {}
    /\ Len(created) = 1

-----------------------------------------------------------------------------
(* abstractpackager.py: the staging tree of one build                      *)
(* The filesystem holds the AppDir the user passed and the temporary       *)
(* directory of the build. A regular file carries its content.             *)

\* A file's content is a sequence of lines "key = value" under a section
\* header; a value is a sequence of words.
Line(s, k, v) == [section |-> s, key |-> k, value |-> v]

File(c) == [kind |-> "file", target |-> <<>>, size |-> 0, content |-> c, mode |-> "rw-"]
Dir == [kind |-> "dir", target |-> <<>>, size |-> 0, content |-> <<>>, mode |-> "rwx"]
SymLink(t) == [kind |-> "link", target |-> t, size |-> 0, content |-> <<>>, mode |-> "rwx"]
RelLink(t) == [kind |-> "rlink", target |-> t, size |-> 0, content |-> <<>>, mode |-> "rwx"]

\* appdir.path, the AppDir given with --appdir
appdir_path == <<"AppDir">>

\* __main__.py:116 the temporary directory of the build
td == <<"td">>

\* context.install_root_dir, a directory of the build's temporary directory
install_root_dir == td \o <<"install_root">>

\* meta_info["package_name"] of the build
package_name == "demo"

\* abstractpackager.py:117 Path(f"/opt/{package_name}.AppDir"), as the
\* names below the root of the installed system
appdir_installed_path == <<"opt", "demo.AppDir">>

\* abstractpackager.py:118
appdir_install_path == install_root_dir \o appdir_installed_path

Put(f, p, node) == [q \in DOMAIN f \cup {p} |-> IF q = p THEN node ELSE f[q]]

Remove(f, S) == [q \in DOMAIN f \ S |-> f[q]]

\* the entries at and below the physical path p
Below(f, p) == {q \in DOMAIN f : IsPrefix(p, q)}

\* os.scandir(d) of the physical directory d
Children(f, d) ==
    {q \in DOMAIN f : Len(q) = Len(d) + 1 /\ IsPrefix(d, q) /\ f[q].kind # "none"}

\* The file open(p, "w") writes: symlinks are followed, in the last
\* component as well, and a missing file is created in an existing directory.
RECURSIVE OpenForWriting(_, _, _)
OpenForWriting(f, p, fuel) ==
    LET d == Stat(f, Parent(p)) IN
    IF p = <<>> \/ d = Err \/ Kind(f, d) # "dir" THEN Err
    ELSE LET q == Append(d, Last(p)) IN
         IF IsLink(Kind(f, q))
         THEN IF fuel = 0 THEN Err
              ELSE OpenForWriting(f, IF Kind(f, q) = "link" THEN f[q].target
                                     ELSE d \o f[q].target, fuel - 1)
         ELSE IF Kind(f, q) = "dir" THEN Err
         ELSE q

\* os.makedirs(p, exist_ok=True): the filesystem afterwards and the error
RECURSIVE makedirs(_, _)
makedirs(f, p) ==
    IF is_dir(f, p) THEN [fs |-> f, error |-> ""]
    ELSE IF lexists(f, p) THEN [fs |-> f, error |-> "FileExistsError"]
    ELSE LET r == makedirs(f, Parent(p)) IN
         IF r.error # "" THEN r
         ELSE [fs |-> Put(r.fs, Append(Stat(r.fs, Parent(p)), Last(p)), Dir),
               error |-> ""]

\* shutil.copy2(src, dst): into dst when dst is a directory, else onto dst
copy2(f, src, dst) ==
    LET d == IF is_dir(f, dst) THEN Append(dst, Last(src)) ELSE dst
        target == OpenForWriting(f, d, MaxFollow)
    IN  IF target = Err THEN [fs |-> f, error |-> "OSError"]
        ELSE [fs |-> Put(f, target, f[src]), error |-> ""]

\* shutil.copytree(src, dst, symlinks=True, ignore_dangling_symlinks=True,
\* dirs_exist_ok=True): a symlink is recreated with the text of its target,
\* a directory is copied in turn, anything else is copied with copy2; the
\* errors of the entries are collected and raised at the end as shutil.Error
RECURSIVE copytree(_, _, _)
RECURSIVE CopyEntries(_, _, _, _)
copytree(f, src, dst) ==
    IF ~is_dir(f, src) THEN [fs |-> f, error |-> "FileNotFoundError"]
    ELSE LET m == makedirs(f, dst) IN
         IF m.error # "" THEN m
         ELSE CopyEntries(m.fs, Children(f, Stat(f, src)), dst, "")

CopyEntries(f, entries, dst, err) ==
    IF entries = {} THEN [fs |-> f, error |-> err]
    ELSE LET srcname == CHOOSE q \in entries : TRUE
             dstname == Append(dst, Last(srcname))
             r == IF IsLink(f[srcname].kind)
                  THEN IF lexists(f, dstname)
                       THEN [fs |-> f, error |-> "FileExistsError"]
                       ELSE [fs |-> Put(f, Append(Stat(f, dst), Last(srcname)),
                                        f[srcname]),
                             error |-> ""]
                  ELSE IF f[srcname].kind = "dir" THEN copytree(f, srcname, dstname)
                  ELSE copy2(f, srcname, dstname)
         IN  CopyEntries(r.fs, entries \ {srcname}, dst,
                         IF r.error # "" THEN "Error" ELSE err)

\* shutil.rmtree(p): refuses a symlink and anything that is no directory
rmtree(f, p) ==
    IF is_symlink(f, p) THEN [fs |-> f, error |-> "OSError"]
    ELSE IF ~is_dir(f, p) THEN [fs |-> f, error |-> "NotADirectoryError"]
    ELSE [fs |-> Remove(f, Below(f, Lstat(f, p))), error |-> ""]

copy_appdir_contents_keeping(f, src, dst) == copytree(f, src, dst)

\* abstractpackager.py:259-269 copy_appdir_contents
copy_appdir_contents(f, src, dst) ==
    IF Stat(f, dst) # Err
    THEN LET r == rmtree(f, dst) IN
         IF r.error # "" THEN r ELSE copytree(r.fs, src, dst)
    ELSE copytree(f, src, dst)

-----------------------------------------------------------------------------
(* abstractpackager.py: copy_data_to_usr *)

\* appdir.py:16-19
DESKTOP_FILES_RELATIVE_LOCATION == <<"usr", "share", "applications">>
ICONS_RELATIVE_LOCATION == <<"usr", "share", "icons">>
MIME_FILES_RELATIVE_LOCATION == <<"usr", "share", "mime">>
CLOUDPROVIDERS_FILES_RELATIVE_LOCATION == <<"usr", "share", "cloud-providers">>

\* The names of the entries of the trees, in the order os.scandir lists them
PkgOrder == <<"usr", "bin", "share", "applications", "icons", "mime",
              "cloud-providers", "packages", "opt", "demo.AppDir",
              "app.desktop", "b.desktop", ".h.desktop", "myapp", "other",
              "myapp.png", "x.xml", "globs", "p.ini", "linuxdeploy.conf">>

\* fnmatch of a name against "*.desktop" and against "*.*"
MatchesDesktop(name) == name \in {"app.desktop", "b.desktop", ".h.desktop"}
MatchesDotted(name) ==
    name \in {"app.desktop", "b.desktop", ".h.desktop", "demo.AppDir", "myapp.png",
              "x.xml", "p.ini", "linuxdeploy.conf"}

\* str.startswith of a file name
NameStartsWith(name, prefix) ==
    \/ prefix = "."      /\ name = ".h.desktop"
    \/ prefix = "myapp." /\ name = "myapp.png"
    \/ prefix = "app."   /\ name = "app.desktop"

RECURSIVE Select(_, _)
Select(s, S) ==
    IF s = <<>> THEN <<>>
    ELSE (IF Head(s) \in S THEN <<Head(s)>> ELSE <<>>) \o Select(Tail(s), S)

\* abstractpackager.py:125-127 find_desktop_files: glob of "*.desktop" in
\* one directory, which leaves out the names that begin with a dot
find_desktop_files(f, ord) ==
    LET dir == appdir_install_path \o DESKTOP_FILES_RELATIVE_LOCATION IN
    IF ~is_dir(f, dir) THEN <<>>
    ELSE Select([i \in DOMAIN ord |-> Append(dir, ord[i])],
                {Append(dir, Last(q)) : q \in
                    {q \in Children(f, Stat(f, dir)) :
                        MatchesDesktop(Last(q)) /\ Last(q) \notin HiddenNames}})

\* abstractpackager.py:129-134 _find_file_paths_in_directory: the glob of
\* "**/*.*" (recursive, include_hidden) and the is_file filter
find_file_paths_in_directory(f, directory, ord) ==
    LET found == GlobRecursive(f, directory, ord, TRUE) IN
    Select(found, {p \in Range(found) :
                      p # directory /\ MatchesDotted(Last(p)) /\ is_file(f, p)})

\* abstractpackager.py:136-142 find_icons(prefix)
find_icons(f, prefix, ord) ==
    LET all_icons == find_file_paths_in_directory(
                         f, appdir_install_path \o ICONS_RELATIVE_LOCATION, ord)
    IN  Select(all_icons, {p \in Range(all_icons) : NameStartsWith(Last(p), prefix)})

\* abstractpackager.py:144-150
find_mime_files(f, ord) ==
    find_file_paths_in_directory(f, appdir_install_path \o MIME_FILES_RELATIVE_LOCATION, ord)

find_cloudproviders_files(f, ord) ==
    find_file_paths_in_directory(
        f, appdir_install_path \o CLOUDPROVIDERS_FILES_RELATIVE_LOCATION, ord)

\* ".." once for each part of a path
RECURSIVE relative_prefix(_)
relative_prefix(parts) ==
    IF parts = <<>> THEN <<>> ELSE <<"..">> \o relative_prefix(Tail(parts))

link_text_from_dst(root, src, dst) ==
    relative_prefix(relative_to(dst, root)) \o relative_to(src, root)

\* abstractpackager.py:156-158 the text of the link: ".." for each part of
\* dst.parent below the install root, then src relative to the install root
link_text(root, src, dst) ==
    relative_prefix(relative_to(Parent(dst), root)) \o relative_to(src, root)

\* Path.unlink(missing_ok=True)
unlink(f, p) ==
    IF ~lexists(f, p) THEN [fs |-> f, error |-> ""]
    ELSE IF Kind(f, Lstat(f, p)) = "dir" THEN [fs |-> f, error |-> "IsADirectoryError"]
    ELSE [fs |-> Remove(f, {Lstat(f, p)}), error |-> ""]

\* os.symlink(text, p)
symlink(f, text, p) ==
    IF lexists(f, p) THEN [fs |-> f, error |-> "FileExistsError"]
    ELSE IF ~is_dir(f, Parent(p)) THEN [fs |-> f, error |-> "FileNotFoundError"]
    ELSE [fs |-> Put(f, Append(Stat(f, Parent(p)), Last(p)), RelLink(text)),
          error |-> ""]

\* abstractpackager.py:153-161 create_relative_symlink
create_relative_symlink(f, root, src, dst) ==
    IF dst = <<>> \/ ~IsPrefix(root, Parent(dst)) \/ ~IsPrefix(root, src)
    THEN [fs |-> f, error |-> "ValueError"]
    ELSE LET u == unlink(f, dst) IN
         IF u.error # "" THEN u ELSE symlink(u.fs, link_text(root, src, dst), dst)

\* abstractpackager.py:211-216 deploy_file_as_is
deploy_file_as_is(f, path) ==
    LET relative_path == relative_to(path, appdir_install_path)
        dst == install_root_dir \o relative_path
        m == makedirs(f, Parent(dst))
    IN  IF m.error # "" THEN m
        ELSE create_relative_symlink(m.fs, install_root_dir, path, dst)

RECURSIVE DeployAll(_, _)
DeployAll(f, paths) ==
    IF paths = <<>> THEN [fs |-> f, error |-> ""]
    ELSE LET r == deploy_file_as_is(f, Head(paths)) IN
         IF r.error # "" THEN r ELSE DeployAll(r.fs, Tail(paths))

\* The generated launcher: the lines of the script that carry a path
LauncherScript(target_binary) ==
    << Line("sh", "this_dir", <<"/">> \o appdir_installed_path),
       Line("sh", "exec", target_binary) >>

\* abstractpackager.py:163-201 create_binary_script: open(script_path, "w"),
\* the script, chmod +x
create_binary_script(f, script_path, target_binary) ==
    LET p == OpenForWriting(f, script_path, MaxFollow) IN
    IF p = Err THEN [fs |-> f, error |-> "OSError"]
    ELSE [fs |-> Put(f, p, [File(LauncherScript(target_binary)) EXCEPT !.mode = "rwx"]),
          error |-> ""]

\* DesktopEntry(path).getExec() and getIcon(): the value of the key in the
\* file the path leads to; a path that leads nowhere gives an empty entry
DesktopValue(f, path, key) ==
    LET p == Stat(f, path) IN
    IF p = Err \/ Kind(f, p) # "file" THEN <<>>
    ELSE LET hits == {i \in DOMAIN f[p].content :
                         /\ f[p].content[i].section = "Desktop Entry"
                         /\ f[p].content[i].key = key}
         IN  IF hits = {} THEN <<>>
             ELSE f[p].content[CHOOSE i \in hits : \A j \in hits : i <= j].value

\* shlex.split: the words of a value that are not blank
RECURSIVE shlex_split(_)
shlex_split(v) ==
    IF v = <<>> THEN <<>>
    ELSE (IF Head(v) = " " THEN <<>> ELSE <<Head(v)>>) \o shlex_split(Tail(v))

lexists_instead(f, p) == lexists(f, p)

\* Path.exists: symlinks are followed
exists(f, p) == Stat(f, p) # Err

\* Icon= values as the prefix f"{desktop_entry.getIcon()}."
IconsPrefix(icon) ==
    IF icon = <<>> THEN "." ELSE IF icon = <<"myapp">> THEN "myapp." ELSE "app."

\* abstractpackager.py:218-248 the loop over the desktop files, one
\* definition for each stretch of its body that ends with a call that may
\* raise
RECURSIVE DesktopLoop(_, _, _)

\* abstractpackager.py:219 dst of a desktop file
DesktopDst(desktop_file) ==
    install_root_dir \o DESKTOP_FILES_RELATIVE_LOCATION \o <<Last(desktop_file)>>

\* abstractpackager.py:245-248 after create_binary_script: the next file
DesktopScript(s, desktop_files, ord) ==
    IF s.error # "" THEN s ELSE DesktopLoop(s.fs, Tail(desktop_files), ord)

\* The first word of an Exec= value as pathlib sees it: whether it begins
\* with "/", and its parts
is_absolute(word) == word = "/usr/bin/myapp"

parts(word) ==
    IF word = "/usr/bin/myapp" THEN <<"usr", "bin", "myapp">>
    ELSE IF word = "../../../demo.AppDir" THEN <<"..", "..", "..", "demo.AppDir">>
    ELSE IF word = "../share/applications/app.desktop"
         THEN <<"..", "share", "applications", "app.desktop">>
    ELSE <<word>>

\* pathlib's base / word: an absolute word replaces the base
joinpath(base, word) == IF is_absolute(word) THEN parts(word) ELSE base \o parts(word)

\* abstractpackager.py:239 usr_bin_path
usr_bin_path(bin) == joinpath(appdir_install_path \o <<"usr", "bin">>, bin)

\* abstractpackager.py:239-248 the binary of the Exec= entry must exist,
\* then the launcher is written
DesktopBinary(f, bin, desktop_files, ord) ==
    IF ~exists(f, usr_bin_path(bin))
    THEN [fs |-> f, error |-> "ValueError"]
    ELSE DesktopScript(
             create_binary_script(
                 f, joinpath(install_root_dir \o <<"usr", "bin">>, bin),
                 <<"/">> \o joinpath(appdir_installed_path \o <<"usr", "bin">>, bin)),
             desktop_files, ord)

\* abstractpackager.py:231-237 after the icons are deployed: the Exec= entry
DesktopExec(i, exec_entry, desktop_files, ord) ==
    IF i.error # "" THEN i
    ELSE IF exec_entry = <<>> THEN [fs |-> i.fs, error |-> "ValueError"]
    ELSE IF shlex_split(exec_entry) = <<>> THEN [fs |-> i.fs, error |-> "IndexError"]
    ELSE DesktopBinary(i.fs, shlex_split(exec_entry)[1], desktop_files, ord)

\* abstractpackager.py:224-232 the desktop entry is read through the link
\* and the icons with its prefix are deployed
DesktopIcons(f, dst, desktop_files, ord) ==
    IF is_dir(f, dst) THEN [fs |-> f, error |-> "IsADirectoryError"]
    ELSE DesktopExec(
             DeployAll(f, find_icons(f, IconsPrefix(DesktopValue(f, dst, "Icon")), ord)),
             DesktopValue(f, dst, "Exec"), desktop_files, ord)

\* abstractpackager.py:220 after create_relative_symlink
DesktopLinked(l, desktop_files, ord) ==
    IF l.error # "" THEN l
    ELSE DesktopIcons(l.fs, DesktopDst(Head(desktop_files)), desktop_files, ord)

DesktopLoop(f, desktop_files, ord) ==
    IF desktop_files = <<>> THEN [fs |-> f, error |-> ""]
    ELSE DesktopLinked(
             create_relative_symlink(f, install_root_dir, Head(desktop_files),
                                     DesktopDst(Head(desktop_files))),
             desktop_files, ord)

\* abstractpackager.py:205-209 the two directories of the install root
UsrDirs(f) ==
    LET m == makedirs(f, install_root_dir \o DESKTOP_FILES_RELATIVE_LOCATION) IN
    IF m.error # "" THEN m ELSE makedirs(m.fs, install_root_dir \o <<"usr", "bin">>)

\* abstractpackager.py:218 the desktop files found once the directories exist
DesktopFiles(m, ord) ==
    IF m.error # "" THEN m ELSE DesktopLoop(m.fs, find_desktop_files(m.fs, ord), ord)

\* abstractpackager.py:256-257 the cloud provider files
DeployCloudproviders(mi, ord) ==
    IF mi.error # "" THEN mi ELSE DeployAll(mi.fs, find_cloudproviders_files(mi.fs, ord))

\* abstractpackager.py:252-257 the MIME files, then the cloud provider files
DeployMime(d, ord) ==
    IF d.error # "" THEN d
    ELSE DeployCloudproviders(DeployAll(d.fs, find_mime_files(d.fs, ord)), ord)

\* abstractpackager.py:152-257 copy_data_to_usr
copy_data_to_usr(f, ord) == DeployMime(DesktopFiles(UsrDirs(f), ord), ord)

-----------------------------------------------------------------------------
(* abstractpackager.py: write_ldnp_conf, with configparser.ConfigParser *)

\* ConfigParser.optionxform: str.lower of an option name
lower(key) == IF key = "Key" THEN "key" ELSE key

optionxform(key) == lower(key)

\* ConfigParser.read_file (strict): the options of the file with their names
\* normalised, or the error: an option before the first section header, a
\* section that occurs twice, an option that occurs twice in its section
read_file(lines) ==
    IF \E i \in DOMAIN lines : lines[i].section = ""
    THEN [config |-> <<>>, error |-> "MissingSectionHeaderError"]
    ELSE IF \E i, j, k \in DOMAIN lines :
                /\ i < j /\ j < k
                /\ lines[i].section = lines[k].section
                /\ lines[j].section # lines[i].section
    THEN [config |-> <<>>, error |-> "DuplicateSectionError"]
    ELSE IF \E i, j \in DOMAIN lines :
                /\ i < j
                /\ lines[i].section = lines[j].section
                /\ optionxform(lines[i].key) = optionxform(lines[j].key)
    THEN [config |-> <<>>, error |-> "DuplicateOptionError"]
    ELSE [config |-> [i \in DOMAIN lines |->
                         Line(lines[i].section, optionxform(lines[i].key), lines[i].value)],
          error |-> ""]

RECURSIVE SelectLines(_, _, _)
SelectLines(lines, section, keep) ==
    IF lines = <<>> THEN <<>>
    ELSE (IF (Head(lines).section = section) = keep THEN <<Head(lines)>> ELSE <<>>)
         \o SelectLines(Tail(lines), section, keep)

\* config[section] = {key: value}: the options of an existing section are
\* replaced where the section stands, a new section comes last
RECURSIVE ReplaceSection(_, _, _, _)
ReplaceSection(lines, section, new, placed) ==
    IF lines = <<>> THEN (IF placed THEN <<>> ELSE <<new>>)
    ELSE IF Head(lines).section = section
         THEN (IF placed THEN <<>> ELSE <<new>>)
              \o ReplaceSection(Tail(lines), section, new, TRUE)
         ELSE <<Head(lines)>> \o ReplaceSection(Tail(lines), section, new, placed)

set_section(config, section, key, value) ==
    ReplaceSection(config, section, Line(section, optionxform(key), value), FALSE)

\* ConfigParser.write: the DEFAULT section first, then the other sections
write(config) ==
    SelectLines(config, "DEFAULT", TRUE) \o SelectLines(config, "DEFAULT", FALSE)

conf_path == appdir_install_path \o <<"usr", "bin", "linuxdeploy.conf">>

\* abstractpackager.py:271-287 write_ldnp_conf
write_ldnp_conf(f) ==
    LET p == Stat(f, conf_path)
        r == IF p = Err THEN [config |-> <<>>, error |-> ""]
             ELSE read_file(f[p].content)
        w == OpenForWriting(f, conf_path, MaxFollow)
    IN  IF p # Err /\ Kind(f, p) = "dir" THEN [fs |-> f, error |-> "IsADirectoryError"]
        ELSE IF p = Err /\ exists(f, Parent(conf_path)) /\ ~is_dir(f, Parent(conf_path))
             THEN [fs |-> f, error |-> "NotADirectoryError"]
        ELSE IF r.error # "" THEN [fs |-> f, error |-> r.error]
        ELSE IF w = Err THEN [fs |-> f, error |-> "FileNotFoundError"]
        ELSE [fs |-> Put(f, w, File(write(set_section(
                                 r.config, "native_packages", "appdir_installed_path",
                                 <<"/">> \o appdir_installed_path)))),
              error |-> ""]

-----------------------------------------------------------------------------
(* create_package of deb.py and rpm.py over the AppDirs of a bounded family *)

\* The tree that holds the given entries and the directories above them
TreeOf(leaves) ==
    LET dirs == UNION {{SubSeq(p, 1, n) : n \in 1..(Len(p) - 1)} : p \in DOMAIN leaves}
    IN  [p \in DOMAIN leaves \cup dirs |-> IF p \in DOMAIN leaves THEN leaves[p] ELSE Dir]

\* the entries of g that f does not hold, added to f
Overlay(f, g) == [p \in DOMAIN f \cup DOMAIN g |-> IF p \in DOMAIN f THEN f[p] ELSE g[p]]

DesktopFile(exec, icon) ==
    File(<<Line("Desktop Entry", "Exec", exec), Line("Desktop Entry", "Icon", icon)>>)

\* Exec values: a command with an argument, none, a blank one
ExecValues == {<<"myapp", "--flag">>, <<>>, <<" ">>}

Absent == <<>>

\* One choice for each part of an AppDir; Absent leaves the part out
RootDesktops == {DesktopFile(<<"myapp", "--flag">>, <<"myapp">>),
                 RelLink(<<"usr", "share", "applications", "app.desktop">>)}
AppDesktops == {Absent} \cup {DesktopFile(e, <<"myapp">>) : e \in ExecValues}
OtherDesktops ==
    {Absent}
    \cup {[name |-> "b.desktop", node |-> DesktopFile(e, <<>>)] :
             e \in {<<"other">>, <<" ">>}}
    \cup {[name |-> ".h.desktop", node |-> DesktopFile(<<"myapp">>, <<>>)]}
Binaries == {Absent, File(<<>>), RelLink(<<"nowhere">>)}
Icons == {Absent, File(<<>>)}
DataFiles == SUBSET {MIME_FILES_RELATIVE_LOCATION \o <<"packages", "x.xml">>,
                     MIME_FILES_RELATIVE_LOCATION \o <<"globs">>,
                     CLOUDPROVIDERS_FILES_RELATIVE_LOCATION \o <<"p.ini">>}
ConfFiles == {Absent, File(<<Line("other", "key", <<"v">>)>>)}

Entry(p, node) == IF node = Absent THEN <<>> ELSE p :> node

AppDirTree(root, app, other, binary, icon, datafiles, conf) ==
    TreeOf(Entry(appdir_path \o <<"app.desktop">>, root)
           @@ Entry(appdir_path \o DESKTOP_FILES_RELATIVE_LOCATION \o <<"app.desktop">>, app)
           @@ (IF other = Absent THEN <<>>
               ELSE (appdir_path \o DESKTOP_FILES_RELATIVE_LOCATION \o <<other.name>>)
                        :> other.node)
           @@ Entry(appdir_path \o <<"usr", "bin", "myapp">>, binary)
           @@ (appdir_path \o <<"usr", "bin", "other">>) :> File(<<>>)
           @@ Entry(appdir_path \o ICONS_RELATIVE_LOCATION \o <<"myapp.png">>, icon)
           @@ [p \in {appdir_path \o d : d \in datafiles} |-> File(<<>>)]
           @@ Entry(appdir_path \o <<"usr", "bin", "linuxdeploy.conf">>, conf)
           @@ install_root_dir :> Dir)

PkgTrees ==
    {AppDirTree(root, app, other, binary, icon, datafiles, conf) :
        root \in RootDesktops, app \in AppDesktops, other \in OtherDesktops,
        binary \in Binaries, icon \in Icons, datafiles \in DataFiles, conf \in ConfFiles}

\* the manifest of the packager: DEBIAN/control of deb.py:60-63, package.spec
\* of rpm.py:133 in context.work_dir
manifest_path(bt) ==
    IF bt = "deb" THEN install_root_dir \o <<"DEBIAN", "control">>
    ELSE td \o <<"package.spec">>

\* deb.py:106-111 and rpm.py:196-200: the calls of create_package in order
PkgSteps == <<"copy_appdir_contents", "copy_data_to_usr", "write_ldnp_conf",
              "generate_manifest", "build_tool">>

StepAfter(step) ==
    IF step = PkgSteps[Len(PkgSteps)] THEN "done"
    ELSE PkgSteps[(CHOOSE i \in DOMAIN PkgSteps : PkgSteps[i] = step) + 1]

NextStepDespiteError(step, err) == StepAfter(step)

\* an exception of a call ends create_package; otherwise the next call runs
NextStep(step, err) == IF err # "" THEN "failed" ELSE StepAfter(step)

InitPkg ==
    /\ pc = "copy_appdir_contents"
    /\ fs \in PkgTrees
    /\ order = PkgOrder
    /\ build_type \in BuildTypes
    /\ steps = <<>>
    /\ error = ""
    /\ environ = <<>>
    /\ data = <<>>
    /\ nops = 0
    /\ packager = "constructed"
    /\ runs = 0
    /\ first_run = <<>>
    /\ ShIdle
    /\ FnIdle
    /\ RpmIdle
    /\ DebIdle
    /\ MainIdle

\* what a step leaves behind: the filesystem, the error, the step taken
StepDone(r) ==
    /\ fs' = r.fs
    /\ error' = r.error
    /\ steps' = Append(steps, pc)
    /\ pc' = NextStep(pc, r.error)
    /\ UNCHANGED <<order, build_type, environ, data, nops, packager, runs, first_run,
                   shVars, fnVars, rpmVars, debVars, mainVars>>

CopyAppdirContents ==
    /\ pc = "copy_appdir_contents"
    /\ \E r \in {copy_appdir_contents(fs, appdir_path, appdir_install_path)} : StepDone(r)

CopyDataToUsr ==
    /\ pc = "copy_data_to_usr"
    /\ \E r \in {copy_data_to_usr(fs, order)} : StepDone(r)

WriteLdnpConf ==
    /\ pc = "write_ldnp_conf"
    /\ \E r \in {write_ldnp_conf(fs)} : StepDone(r)

\* deb.py:31-75 generate_control_file, which may fail on an extra file after
\* it wrote the control file, and rpm.py:74-134 generate_spec_file, which
\* may fail on an assertion before it writes the spec file
GenerateManifest ==
    /\ pc = "generate_manifest"
    /\ \E failed \in BOOLEAN :
         StepDone([fs |-> IF build_type = "rpm" /\ failed THEN fs
                          ELSE Put(makedirs(fs, Parent(manifest_path(build_type))).fs,
                                   manifest_path(build_type), File(<<>>)),
                   error |-> IF ~failed THEN ""
                             ELSE IF build_type = "rpm" THEN "AssertionError"
                             ELSE "FileNotFoundError"])

out_path == <<"out">>

\* deb.py:83-87 generate_deb and rpm.py:136-178 generate_rpm: the external
\* tool exits with a status; rpmbuild leaves n archives in out_dir
BuildTool ==
    /\ pc = "build_tool"
    /\ \E status \in {0, 1}, n \in 0..MaxRpms :
         LET err == IF status # 0 THEN "CalledProcessError"
                    ELSE IF build_type = "rpm" THEN CollectBuiltRpms(n)
                    ELSE ""
         IN  StepDone([fs |-> IF err = "" THEN Put(fs, out_path, File(<<>>)) ELSE fs,
                       error |-> err])

NextPkg ==
    \/ CopyAppdirContents
    \/ CopyDataToUsr
    \/ WriteLdnpConf
    \/ GenerateManifest
    \/ BuildTool

SpecPkg == InitPkg /\ [][NextPkg]_vars

-----------------------------------------------------------------------------
(* Claims about create_package, checked under SpecPkg *)

ManifestWritten == lexists(fs, manifest_path(build_type))

ToolInvoked == "build_tool" \in Range(steps)

CopyDataToUsrRan == Len(steps) >= 2

CopyDataToUsrSucceeded == Len(steps) > 2 \/ (Len(steps) = 2 /\ error = "")

\* the words of Exec= of the desktop file at the root of the AppDir
RootExec == shlex_split(DesktopValue(fs, appdir_path \o <<"app.desktop">>, "Exec"))

StagedDesktopWithoutBinary ==
    \E d \in Range(find_desktop_files(fs, order)) :
        /\ shlex_split(DesktopValue(fs, d, "Exec")) # <<>>
        /\ Stat(fs, appdir_install_path
                    \o <<"usr", "bin", shlex_split(DesktopValue(fs, d, "Exec"))[1]>>) = Err

BlankExecStaged ==
    \E d \in Range(find_desktop_files(fs, order)) :
        /\ DesktopValue(fs, d, "Exec") # <<>>
        /\ shlex_split(DesktopValue(fs, d, "Exec")) = <<>>

IsPrefixOfSteps(s) == Len(s) <= Len(PkgSteps) /\ \A i \in DOMAIN s : s[i] = PkgSteps[i]

\* C12: create_package takes its steps in the order copy_appdir_contents,
\* copy_data_to_usr, write_ldnp_conf, manifest, external tool, and once a
\* step has failed no further step is taken.
C12_StepsInOrder ==
    /\ [](IsPrefixOfSteps(steps) /\ (error # "" => pc = "failed"))
    /\ [][error # "" => steps' = steps]_vars

C12_Witness ==
    /\ build_type = "rpm"
    /\ pc = "failed"
    /\ error = "ValueError"
    /\ steps = <<"copy_appdir_contents", "copy_data_to_usr">>

StagedDataFiles ==
    {p \in DOMAIN fs :
        /\ fs[p].kind = "file"
        /\ \/ IsPrefix(appdir_install_path \o MIME_FILES_RELATIVE_LOCATION, p)
           \/ IsPrefix(appdir_install_path \o CLOUDPROVIDERS_FILES_RELATIVE_LOCATION, p)}

\* C14: after copy_data_to_usr succeeded, every regular file below
\* usr/share/mime and usr/share/cloud-providers of the staged copy has, at
\* the same relative path below the install root, a relative symlink that
\* leads to it.
C14_DataFilesLinked ==
    CopyDataToUsrSucceeded =>
        \A p \in StagedDataFiles :
            LET dst == install_root_dir \o relative_to(p, appdir_install_path) IN
            /\ lexists(fs, dst)
            /\ Kind(fs, Lstat(fs, dst)) = "rlink"
            /\ Stat(fs, dst) = p

-----------------------------------------------------------------------------
(* copy_appdir_contents run repeatedly: AppDirs with files, directories and *)
(* symlinks, and install roots that hold a copy already                    *)

\* Runs of copy_appdir_contents on one install root
MaxRuns == 2

Text(c) == <<Line("", "", <<c>>)>>

\* The AppDir: a file f, an entry d (a directory, empty or not, or a symlink
\* to f), a symlink l (to d, out of the AppDir, or dangling); or no AppDir
CopySources ==
    {TreeOf(Entry(appdir_path \o <<"f">>, f)
            @@ (IF d = "dir" THEN (appdir_path \o <<"d">>) :> Dir
                ELSE IF d = "full" THEN (appdir_path \o <<"d", "g">>) :> File(Text("2"))
                ELSE IF d = "link" THEN (appdir_path \o <<"d">>) :> RelLink(<<"f">>)
                ELSE <<>>)
            @@ Entry(appdir_path \o <<"l">>, l)
            @@ appdir_path :> Dir) :
        f \in {Absent, File(Text("1"))},
        d \in {"none", "dir", "full", "link"},
        l \in {Absent, RelLink(<<"d">>), RelLink(<<"..", "td">>), SymLink(<<"nowhere">>)}}
    \cup {<<>>}

\* The install root: nothing at the destination, something that is no
\* directory, or a directory with entries of an earlier copy
CopyDestinations ==
    {TreeOf(install_root_dir :> Dir), TreeOf((install_root_dir \o <<"opt">>) :> Dir)}
    \cup {TreeOf(appdir_install_path :> n) :
             n \in {File(Text("9")), RelLink(<<"nowhere">>), SymLink(appdir_path)}}
    \cup {TreeOf(Entry(appdir_install_path \o <<"f">>, f)
                 @@ Entry(appdir_install_path \o <<"s">>, s)
                 @@ Entry(appdir_install_path \o <<"l">>, l)
                 @@ Entry(appdir_install_path \o <<"d">>, d)
                 @@ appdir_install_path :> Dir) :
             f \in {Absent, File(Text("9")), Dir, RelLink(<<"nowhere">>)},
             s \in {Absent, File(Text("9"))},
             l \in {Absent, RelLink(<<"f">>)},
             d \in {Absent, File(Text("9")), Dir}}

CopyTrees == {Overlay(src, dst) : src \in CopySources, dst \in CopyDestinations}

InitCopy ==
    /\ pc = "copy_appdir_contents_again"
    /\ fs \in CopyTrees
    /\ runs = 0
    /\ first_run = <<>>
    /\ error = ""
    /\ order = <<>>
    /\ steps = <<>>
    /\ ShIdle
    /\ FnIdle
    /\ RpmIdle
    /\ DebIdle
    /\ MetaIdle
    /\ MainIdle

\* one more call of copy_appdir_contents on the same AppDir and install root
CopyAppdirContentsAgain ==
    /\ pc = "copy_appdir_contents_again"
    /\ runs < MaxRuns
    /\ \E r \in {copy_appdir_contents(fs, appdir_path, appdir_install_path)} :
         /\ fs' = r.fs
         /\ error' = r.error
         /\ first_run' = IF runs = 0 THEN [before |-> fs, fs |-> r.fs, error |-> r.error]
                         ELSE first_run
    /\ runs' = runs + 1
    /\ UNCHANGED <<pc, order, steps, shVars, fnVars, rpmVars, debVars, metaVars,
                   mainVars>>

NextCopy == CopyAppdirContentsAgain

SpecCopy == InitCopy /\ [][NextCopy]_vars

\* C13: a further run of copy_appdir_contents on the same AppDir and install
\* root ends as the first run did and leaves the filesystem of the first
\* run: the same entries, contents and symlink targets.
C13_CopyIdempotent ==
    runs >= 2 => (fs = first_run.fs /\ error = first_run.error)

\* two runs that succeeded on a destination that held stale entries, with a
\* dangling symlink of the AppDir kept as a symlink in the copy
C13_Witness ==
    /\ runs = 2
    /\ error = ""
    /\ Kind(first_run.before, appdir_install_path \o <<"s">>) = "file"
    /\ Kind(fs, appdir_install_path \o <<"s">>) = "none"
    /\ Kind(fs, appdir_install_path \o <<"l">>) = "link"
    /\ Kind(fs, appdir_install_path \o <<"d", "g">>) = "file"

-----------------------------------------------------------------------------
(* The launcher create_binary_script writes, run by /bin/sh on the system  *)
(* the package is installed on                                             *)

\* The files of the package as installed: the install root becomes "/"
Installed(f) ==
    [p \in {relative_to(q, install_root_dir) :
                q \in Below(f, install_root_dir) \ {install_root_dir}}
        |-> f[install_root_dir \o p]]

\* The name of the binary of the Exec= entry
exec_binary == "myapp"

\* abstractpackager.py:246-247 the two arguments of create_binary_script
script_path == install_root_dir \o <<"usr", "bin", exec_binary>>
target_binary == <<"/">> \o appdir_installed_path \o <<"usr", "bin", exec_binary>>

\* The path an absolute path of the script names on the installed system
AbsPath(words) == Tail(words)

\* $APPDIR/apprun-hooks in the staging tree
staged_script_dir == appdir_install_path \o <<"apprun-hooks">>

\* The names in apprun-hooks, in the order the shell sorts them
HookOrder == <<".h", "a", "c">>

\* What a hook does when it is sourced: every command succeeds, a command
\* fails, or the hook calls exit 0
HookTexts == {"ok", "fail", "exit"}

\* The staging trees: the launcher's place is free or holds a file of an
\* earlier desktop file with the same Exec= entry; the binary is a file or a
\* directory; apprun-hooks is missing, a file, or a directory with a hidden
\* entry, regular files, a subdirectory and symlinks
LauncherTrees ==
    LET Base(stale, bin) ==
            Entry(script_path, stale)
            @@ ((appdir_install_path \o <<"usr", "bin", exec_binary>>) :> bin)
            @@ ((install_root_dir \o <<"usr", "bin">>) :> Dir)
    IN  {TreeOf(Base(stale, bin) @@ hooks) :
            stale \in {Absent, File(Text("stale"))},
            bin \in {File(Text("elf")), Dir},
            hooks \in {<<>>, staged_script_dir :> File(Text("ok"))}
                \cup {Entry(staged_script_dir \o <<".h">>, h)
                       @@ Entry(staged_script_dir \o <<"a">>, a)
                       @@ Entry(staged_script_dir \o <<"c">>, c)
                       @@ staged_script_dir :> Dir :
                          h \in {Absent, File(Text("ok")), File(Text("fail"))},
                          a \in {Absent, Dir} \cup {File(Text(t)) : t \in HookTexts},
                          c \in {Absent, File(Text("ok")), File(Text("fail")),
                                 RelLink(<<"a">>), RelLink(<<"nowhere">>)}}}

InitLauncher ==
    /\ pc = "create_binary_script"
    /\ fs \in LauncherTrees
    /\ error = ""
    /\ order = <<>>
    /\ steps = <<>>
    /\ runs = 0
    /\ first_run = <<>>
    /\ ShIdle
    /\ FnIdle
    /\ RpmIdle
    /\ DebIdle
    /\ MetaIdle
    /\ MainIdle

\* abstractpackager.py:245-248 the call of create_binary_script
CreateBinaryScript ==
    /\ pc = "create_binary_script"
    /\ \E r \in {create_binary_script(fs, script_path, target_binary)} :
         /\ fs' = r.fs
         /\ error' = r.error
         /\ pc' = IF r.error # "" THEN "failed" ELSE "install"
    /\ UNCHANGED <<order, steps, runs, first_run, shVars, fnVars, rpmVars, debVars,
                   metaVars, mainVars>>

\* the package is installed: its files appear below "/"
InstallPackage ==
    /\ pc = "install"
    /\ fs' = Installed(fs)
    /\ pc' = "sh_start"
    /\ UNCHANGED <<order, error, steps, runs, first_run, shVars, fnVars, rpmVars,
                   debVars, metaVars, mainVars>>

launcher == <<"usr", "bin", exec_binary>>

\* the value the script assigns or passes in the line with the given key
ScriptValue(f, key) ==
    LET c == f[Stat(f, launcher)].content
    IN  c[CHOOSE i \in DOMAIN c : c[i].section = "sh" /\ c[i].key = key].value

\* abstractpackager.py:170-180 the kernel starts /bin/sh on the script when
\* it is an executable regular file; set -e, this_dir=..., export APPDIR
ShStart ==
    /\ pc = "sh_start"
    /\ \E args \in {<<>>, <<"--x", "y z">>} :
         IF is_file(fs, launcher) /\ fs[Stat(fs, launcher)].mode = "rwx"
         THEN /\ sh_args' = args
              /\ exported' = AbsPath(ScriptValue(fs, "this_dir"))
              /\ pc' = "sh_if"
              /\ UNCHANGED sh_status
         ELSE /\ sh_status' = 126
              /\ pc' = "sh_done"
              /\ UNCHANGED <<sh_args, exported>>
    /\ UNCHANGED <<fs, order, error, steps, runs, first_run, hook_i, sourced, execd,
                   fnVars, rpmVars, debVars, metaVars, mainVars>>

\* abstractpackager.py:182 script_dir="$APPDIR/apprun-hooks"
script_dir == exported \o <<"apprun-hooks">>

\* abstractpackager.py:183 if [ -d "$script_dir" ]
ShIf ==
    /\ pc = "sh_if"
    /\ IF is_dir(fs, script_dir)
       THEN pc' = "sh_for" /\ hook_i' = 1
       ELSE pc' = "sh_exec" /\ UNCHANGED hook_i
    /\ UNCHANGED <<fs, order, error, steps, runs, first_run, exported, sourced, execd,
                   sh_status, sh_args, fnVars, rpmVars, debVars, metaVars, mainVars>>

\* abstractpackager.py:184 "$script_dir"/*: the names of the directory that
\* do not begin with a dot, sorted; the pattern itself when there is none
ShGlobStar(f, dir) ==
    LET names == {Last(q) : q \in Children(f, Stat(f, dir))} \ HiddenNames
        found == Select(HookOrder, names)
    IN  IF found = <<>> THEN <<"*">> ELSE found

any_entry_is_hook(f, script) == lexists(f, script)

\* abstractpackager.py:187 [ ! -f "$script" ] && continue
is_hook(f, script) == is_file(f, script)

\* what sourcing the script does, by its content
HookText(f, script) ==
    IF is_file(f, script) THEN f[Stat(f, script)].content[1].value[1] ELSE "ok"

\* abstractpackager.py:184-191 one round of the for loop; under set -e a
\* command of a sourced script that fails ends the shell
ShFor ==
    /\ pc = "sh_for"
    /\ LET words == ShGlobStar(fs, script_dir) IN
       IF hook_i > Len(words)
       THEN pc' = "sh_exec" /\ UNCHANGED <<hook_i, sourced, sh_status>>
       ELSE LET script == Append(script_dir, words[hook_i]) IN
            IF ~is_hook(fs, script)
            THEN /\ hook_i' = hook_i + 1
                 /\ UNCHANGED <<pc, sourced, sh_status>>
            ELSE /\ sourced' = Append(sourced, script)
                 /\ hook_i' = hook_i + 1
                 /\ IF HookText(fs, script) = "fail"
                    THEN pc' = "sh_done" /\ sh_status' = 1
                    ELSE IF HookText(fs, script) = "exit"
                    THEN pc' = "sh_done" /\ sh_status' = 0
                    ELSE UNCHANGED <<pc, sh_status>>
    /\ UNCHANGED <<fs, order, error, steps, runs, first_run, exported, execd, sh_args,
                   fnVars, rpmVars, debVars, metaVars, mainVars>>

\* abstractpackager.py:194 exec target "$@": the shell is replaced by the
\* binary, or ends with 126 when the target cannot be executed
ShExec ==
    /\ pc = "sh_exec"
    /\ execd' = [binary |-> AbsPath(ScriptValue(fs, "exec")), args |-> sh_args]
    /\ sh_status' = IF is_file(fs, AbsPath(ScriptValue(fs, "exec"))) THEN 0 ELSE 126
    /\ pc' = "sh_done"
    /\ UNCHANGED <<fs, order, error, steps, runs, first_run, hook_i, exported, sourced,
                   sh_args, fnVars, rpmVars, debVars, metaVars, mainVars>>

NextLauncher ==
    \/ CreateBinaryScript
    \/ InstallPackage
    \/ ShStart
    \/ ShIf
    \/ ShFor
    \/ ShExec

SpecLauncher == InitLauncher /\ [][NextLauncher]_vars

\* the launcher has been written and the package is installed
LauncherInstalled == pc \in {"sh_start", "sh_if", "sh_for", "sh_exec", "sh_done"}

installed_script_dir == appdir_installed_path \o <<"apprun-hooks">>

\* the entries of apprun-hooks of the given kind, hidden ones or not
HookEntries(f, hidden) ==
    IF ~is_dir(f, installed_script_dir) THEN {}
    ELSE {q \in Children(f, Stat(f, installed_script_dir)) :
             (Last(q) \in HiddenNames) = hidden}

\* the scripts the launcher is to source: the entries of apprun-hooks, in
\* sorted order, that are regular files or lead to one and whose names do
\* not begin with a dot
Sourceable(f) ==
    Select([i \in DOMAIN HookOrder |-> Append(installed_script_dir, HookOrder[i])],
           {q \in HookEntries(f, FALSE) : is_file(f, q)})

\* C15 as stated: once the launcher has exec'ed the binary, every regular
\* file of $APPDIR/apprun-hooks has been sourced.
C15_EveryRegularFileSourced ==
    (LauncherInstalled /\ execd # <<>>) =>
        \A q \in HookEntries(fs, TRUE) \cup HookEntries(fs, FALSE) :
            Kind(fs, q) = "file" => q \in Range(sourced)

\* C15: the launcher at usr/bin/<name> is a regular executable file, not a
\* symlink. Its run exports APPDIR=/opt/<packageName>.AppDir before it
\* sources or executes anything; it sources, in sorted order, the entries of
\* $APPDIR/apprun-hooks whose names do not begin with a dot and that are
\* regular files or symlinks to one, and nothing else; when no hook fails or
\* exits it then execs /opt/<packageName>.AppDir/usr/bin/<name> with the
\* arguments it was given; after a hook that failed the launcher has ended
\* with a non-zero status and the binary is never executed.
C15_LauncherRun ==
    LauncherInstalled =>
        /\ Kind(fs, launcher) = "file" /\ fs[launcher].mode = "rwx"
        /\ (sourced # <<>> \/ execd # <<>> \/ pc \in {"sh_if", "sh_for", "sh_exec"})
               => exported = appdir_installed_path
        /\ IsPrefix(sourced, Sourceable(fs))
        /\ execd # <<>> =>
               /\ sourced = Sourceable(fs)
               /\ execd = [binary |-> appdir_installed_path \o <<"usr", "bin", exec_binary>>,
                           args |-> sh_args]
        /\ (\E i \in DOMAIN sourced : HookText(fs, sourced[i]) = "fail")
               => /\ execd = <<>>
                  /\ pc = "sh_done"
                  /\ sh_status = 1
        /\ (pc = "sh_done" /\ execd = <<>>)
               => \/ sourced # <<>> /\ HookText(fs, sourced[Len(sourced)]) \in {"fail", "exit"}

\* a run with arguments that left out a hidden regular file, sourced a file
\* and a symlink to it, and exec'ed the binary
C15_Witness ==
    /\ pc = "sh_done"
    /\ execd # <<>>
    /\ execd.args = <<"--x", "y z">>
    /\ sourced = <<installed_script_dir \o <<"a">>, installed_script_dir \o <<"c">>>>
    /\ Kind(fs, installed_script_dir \o <<"c">>) = "rlink"
    /\ Kind(fs, installed_script_dir \o <<".h">>) = "file"

-----------------------------------------------------------------------------
(* write_ldnp_conf over the linuxdeploy.conf files of a bounded family     *)

\* Lines of a linuxdeploy.conf
MaxConfLines == 3

\* A line is an option under the section header above it; the section ""
\* stands for an option before the first header
ConfLines ==
    {Line(sec, k, <<"v">>) :
        sec \in {"", "DEFAULT", "other", "native_packages"},
        k \in {"key", "Key", "appdir_installed_path"}}

ConfContents == UNION {[1..n -> ConfLines] : n \in 0..MaxConfLines}

\* The staged AppDir: usr/bin/linuxdeploy.conf is a file, is missing, is a
\* directory or a dangling symlink; or there is no usr/bin
ConfTrees ==
    {TreeOf(conf_path :> n) :
        n \in {File(c) : c \in ConfContents} \cup {Dir, RelLink(<<"nowhere">>)}}
    \cup {TreeOf(Parent(conf_path) :> Dir), TreeOf(appdir_install_path :> Dir)}

InitConf ==
    /\ pc = "write_ldnp_conf"
    /\ fs \in ConfTrees
    /\ error = ""
    /\ order = <<>>
    /\ steps = <<>>
    /\ runs = 0
    /\ first_run = <<>>
    /\ ShIdle
    /\ FnIdle
    /\ RpmIdle
    /\ DebIdle
    /\ MetaIdle
    /\ MainIdle

\* abstractpackager.py:271-287 one call of write_ldnp_conf
WriteLdnpConfOnce ==
    /\ pc = "write_ldnp_conf"
    /\ \E r \in {write_ldnp_conf(fs)} :
         /\ fs' = r.fs
         /\ error' = r.error
         /\ pc' = IF r.error # "" THEN "failed" ELSE "done"
    /\ UNCHANGED <<order, steps, runs, first_run, shVars, fnVars, rpmVars, debVars,
                   metaVars, mainVars>>

NextConf == WriteLdnpConfOnce

SpecConf == InitConf /\ [][NextConf]_vars

\* the options of the staged linuxdeploy.conf, none when it is no file
ConfOf(f) == IF is_file(f, conf_path) THEN f[Stat(f, conf_path)].content ELSE <<>>

native_packages_line ==
    Line("native_packages", "appdir_installed_path", <<"/">> \o appdir_installed_path)

\* C16: write_ldnp_conf keeps every section other than native_packages of
\* the linuxdeploy.conf it finds, with all keys and values; afterwards the
\* file has a native_packages section whose appdir_installed_path is
\* /opt/<packageName>.AppDir; without a file beforehand the result is just
\* that section. Stated of the calls that return.
C16_OtherSectionsKept ==
    [][(pc = "write_ldnp_conf" /\ error' = "") =>
        /\ \A i \in DOMAIN ConfOf(fs) :
              ConfOf(fs)[i].section \notin {"", "native_packages"}
                  => ConfOf(fs)[i] \in Range(ConfOf(fs'))
        /\ native_packages_line \in Range(ConfOf(fs'))
        /\ {i \in DOMAIN ConfOf(fs') : ConfOf(fs')[i].section = "native_packages"} # {}
        /\ ~lexists(fs, conf_path) => ConfOf(fs') = <<native_packages_line>>]_vars

-----------------------------------------------------------------------------
(* rpm.py: is_any_parent_dir_a_symlink asked about the paths of a tree     *)

\* Names of the longest relative path asked about
MaxDepth == 3

ArgPaths == UNION {[1..n -> Names] : n \in 1..MaxDepth}

InitParent ==
    /\ pc = "is_any_parent_dir_a_symlink"
    /\ fs \in RpmTrees
    /\ arg_path \in ArgPaths
    /\ lexists(fs, InstallRoot \o arg_path)
    /\ result = ""
    /\ link_root = <<>>
    /\ link_src = <<>>
    /\ link_dst = <<>>
    /\ error = ""
    /\ order = <<>>
    /\ steps = <<>>
    /\ runs = 0
    /\ first_run = <<>>
    /\ ShIdle
    /\ RpmIdle
    /\ DebIdle
    /\ MetaIdle
    /\ MainIdle

\* rpm.py:17-37 one call of is_any_parent_dir_a_symlink
IsAnyParentDirASymlink ==
    /\ pc = "is_any_parent_dir_a_symlink"
    /\ result' = is_any_parent_dir_a_symlink(fs, InstallRoot, arg_path)
    /\ pc' = "returned"
    /\ UNCHANGED <<fs, order, error, steps, runs, first_run, shVars, arg_path,
                   link_root, link_src, link_dst, rpmVars, debVars, metaVars, mainVars>>

NextParent == IsAnyParentDirASymlink

SpecParent == InitParent /\ [][NextParent]_vars

\* the path asked about is a regular file, a symlink to a file or a symlink
\* to a directory
FileOrSymlink(f, p) ==
    \/ is_symlink(f, p) /\ (is_file(f, p) \/ is_dir(f, p))
    \/ ~is_symlink(f, p) /\ is_file(f, p)

\* an ancestor of p below the root is a symlink
HasSymlinkAncestor(f, p) ==
    \E i \in 1..(Len(p) - 1) : is_symlink(f, InstallRoot \o SubSeq(p, 1, i))

\* C19: is_any_parent_dir_a_symlink returns false for every path directly
\* under the root, and true for every regular file, symlink to a file and
\* symlink to a directory that has an ancestor directory below the root
\* that is a symlink.
C19_SymlinkAncestorFound ==
    (pc = "returned" /\ FileOrSymlink(fs, InstallRoot \o arg_path)) =>
        /\ Len(arg_path) = 1 => result = "False"
        /\ HasSymlinkAncestor(fs, arg_path) => result = "True"

-----------------------------------------------------------------------------
(* create_relative_symlink over install roots, sources and destinations    *)

\* Names of the longest path below the install root
MaxLinkDepth == 3

LinkNames == {"a", "b"}

\* The install roots: the root directory, a directory, a directory of the
\* temporary directory
LinkRoots == {<<>>, <<"r">>, install_root_dir}

\* paths relative to the install root, of lengths from lo to hi
RelPaths(lo, hi) == UNION {[1..n -> LinkNames] : n \in lo..hi}

\* The trees: dst's parent directory exists; src is missing, a file or a
\* directory; at dst there is nothing, a file or a symlink
LinkTrees(root, src, dst) ==
    {TreeOf(Entry(src, s) @@ Entry(dst, d) @@ Parent(dst) :> Dir @@ root :> Dir) :
        s \in {Absent, File(Text("1")), Dir},
        d \in {Absent, File(Text("9")), RelLink(<<"nowhere">>)}}

InitLink ==
    /\ pc = "create_relative_symlink"
    /\ link_root \in LinkRoots
    /\ link_src \in {link_root \o p : p \in RelPaths(0, MaxLinkDepth - 1)}
    /\ link_dst \in {link_root \o p : p \in RelPaths(1, MaxLinkDepth)}
    /\ fs \in LinkTrees(link_root, link_src, link_dst)
    /\ arg_path = <<>>
    /\ result = ""
    /\ error = ""
    /\ order = <<>>
    /\ steps = <<>>
    /\ runs = 0
    /\ first_run = <<>>
    /\ ShIdle
    /\ RpmIdle
    /\ DebIdle
    /\ MetaIdle
    /\ MainIdle

\* abstractpackager.py:153-161 one call of create_relative_symlink
CreateRelativeSymlink ==
    /\ pc = "create_relative_symlink"
    /\ \E r \in {create_relative_symlink(fs, link_root, link_src, link_dst)} :
         /\ fs' = r.fs
         /\ error' = r.error
    /\ pc' = "linked"
    /\ UNCHANGED <<order, steps, runs, first_run, shVars, fnVars, rpmVars, debVars,
                   metaVars, mainVars>>

NextLink == CreateRelativeSymlink

SpecLink == InitLink /\ [][NextLink]_vars

\* n times ".."
Dots(n) == [i \in 1..n |-> ".."]

\* a relative path resolved by its text alone from the directory cur: ".."
\* drops the last name, any other name is appended
RECURSIVE LexResolve(_, _)
LexResolve(cur, text) ==
    IF text = <<>> THEN cur
    ELSE LexResolve(IF Head(text) = ".." THEN Parent(cur) ELSE Append(cur, Head(text)),
                    Tail(text))

\* the text of the symlink at dst
LinkTextAt(f, dst) == f[Lstat(f, dst)].target

\* C20: for every install root R and every src and dst under R, the link
\* create_relative_symlink makes at dst holds one ".." for each component
\* of dst's parent relative to R, followed by src's path relative to R, and
\* resolving that text from dst's parent directory gives exactly src.
C20_RelativeLinkRoundTrip ==
    (pc = "linked" /\ error = "") =>
        /\ Kind(fs, Lstat(fs, link_dst)) = "rlink"
        /\ LinkTextAt(fs, link_dst)
               = Dots(Len(link_dst) - 1 - Len(link_root))
                 \o SubSeq(link_src, Len(link_root) + 1, Len(link_src))
        /\ LexResolve(Parent(link_dst), LinkTextAt(fs, link_dst)) = link_src

\* a link two directories below the install root to a file in another
\* directory, in place of a file that was there
C20_Witness ==
    /\ pc = "linked"
    /\ error = ""
    /\ link_root = install_root_dir
    /\ link_dst = install_root_dir \o <<"a", "b", "a">>
    /\ link_src = install_root_dir \o <<"b", "a">>
    /\ LinkTextAt(fs, link_dst) = <<"..", "..", "b", "a">>
    /\ is_file(fs, link_dst)

-----------------------------------------------------------------------------
(* create_relative_symlink given paths in and out of the install root      *)

\* The install roots: directories that have a parent directory
OutsideRoots == {<<"r">>, install_root_dir}

\* src: a file of the root, the root, a file next to the root named
\* directly and named through the root and ".."
OutsideSources(root) ==
    {root \o <<"a">>, root, Parent(root) \o <<"x">>, root \o <<"..", "x">>}

\* dst: in the root, in a directory of the root, the root, a path next to
\* the root named directly and named through the root and ".."
OutsideDestinations(root) ==
    {root \o <<"l">>, root \o <<"d", "l">>, root, Parent(root) \o <<"x">>,
     Parent(root) \o <<"y">>, root \o <<"..", "x">>, root \o <<"..", "y">>}

\* The trees: the root with a file and a directory, and next to the root
\* the file x; at l, d/l and y there is nothing, a file or a symlink
OutsideTrees(root) ==
    {TreeOf(Entry(root \o <<"l">>, l) @@ Entry(root \o <<"d", "l">>, l)
            @@ Entry(Parent(root) \o <<"y">>, y)
            @@ (root \o <<"a">>) :> File(Text("1"))
            @@ (root \o <<"d">>) :> Dir
            @@ (Parent(root) \o <<"x">>) :> File(Text("2"))) :
        l \in {Absent, File(Text("9")), RelLink(<<"a">>)},
        y \in {Absent, File(Text("9"))}}

InitOutside ==
    /\ pc = "create_relative_symlink"
    /\ link_root \in OutsideRoots
    /\ link_src \in OutsideSources(link_root)
    /\ link_dst \in OutsideDestinations(link_root)
    /\ fs \in OutsideTrees(link_root)
    /\ arg_path = <<>>
    /\ result = ""
    /\ error = ""
    /\ order = <<>>
    /\ steps = <<>>
    /\ runs = 0
    /\ first_run = <<>>
    /\ ShIdle
    /\ RpmIdle
    /\ DebIdle
    /\ MetaIdle
    /\ MainIdle

NextOutside == CreateRelativeSymlink

SpecOutside == InitOutside /\ [][NextOutside]_vars

\* the path, with its ".." components resolved, is the root or below it
ContainedUnder(root, p) == IsPrefix(root, LexResolve(<<>>, p))

-----------------------------------------------------------------------------
(* copy_data_to_usr over the Exec= values of a staged desktop file         *)

\* The first words of Exec=: a name, a path that begins with "/", paths
\* with ".." that lead out of usr/bin
ExecWords == {"myapp", "other", "/usr/bin/myapp", "../../../demo.AppDir",
              "../share/applications/app.desktop"}

\* The machine of the build: the staged copy of the AppDir with one desktop
\* file, binaries in its usr/bin or none, an icon or none; on the machine
\* itself /usr/bin/myapp exists or not; the install root holds the staged
\* copy only, or entries of an earlier call as well
ExecTrees ==
    {TreeOf(Entry(appdir_install_path \o DESKTOP_FILES_RELATIVE_LOCATION \o <<"app.desktop">>,
                  DesktopFile(<<w>> \o a, <<"myapp">>))
            @@ Entry(appdir_install_path \o <<"usr", "bin", "myapp">>, b)
            @@ Entry(appdir_install_path \o ICONS_RELATIVE_LOCATION \o <<"myapp.png">>, i)
            @@ Entry(<<"usr", "bin", "myapp">>, h)
            @@ Entry(install_root_dir \o <<"usr", "bin", "myapp">>, o)
            @@ (appdir_install_path \o <<"usr", "bin">>) :> Dir) :
        w \in ExecWords, a \in {<<>>, <<"--flag">>},
        b \in {Absent, File(Text("elf"))}, i \in {Absent, File(<<>>)},
        h \in {Absent, File(Text("host"))},
        o \in {Absent, File(Text("stale")), RelLink(<<"nowhere">>)}}

InitExec ==
    /\ pc = "copy_data_to_usr"
    /\ fs \in ExecTrees
    /\ order = PkgOrder
    /\ error = ""
    /\ steps = <<>>
    /\ runs = 0
    /\ first_run = <<>>
    /\ ShIdle
    /\ FnIdle
    /\ RpmIdle
    /\ DebIdle
    /\ MetaIdle
    /\ MainIdle

\* abstractpackager.py:152-257 one call of copy_data_to_usr
CopyDataToUsrOnce ==
    /\ pc = "copy_data_to_usr"
    /\ \E r \in {copy_data_to_usr(fs, order)} :
         /\ fs' = r.fs
         /\ error' = r.error
         /\ pc' = IF r.error # "" THEN "failed" ELSE "done"
    /\ UNCHANGED <<order, steps, runs, first_run, shVars, fnVars, rpmVars, debVars,
                   metaVars, mainVars>>

NextExec == CopyDataToUsrOnce

SpecExec == InitExec /\ [][NextExec]_vars

\* the paths whose entry the step made, changed or removed
Touched(f, g) ==
    {p \in DOMAIN f \cup DOMAIN g : Kind(f, p) # Kind(g, p) \/ (p \in DOMAIN f /\ p \in DOMAIN g /\ f[p] # g[p])}

\* the first word of Exec= of the staged desktop file
StagedExecWord(f) ==
    shlex_split(DesktopValue(f, appdir_install_path \o DESKTOP_FILES_RELATIVE_LOCATION
                                    \o <<"app.desktop">>, "Exec"))[1]

\* C22: whatever the first word of Exec= is (a path that begins with "/",
\* a path with "/" or ".." in it), every file, directory and symlink
\* copy_data_to_usr makes or overwrites lies inside the install root of the
\* build, and the binary is looked for inside usr/bin of the staged AppDir
\* copy only.
C22_WritesStayInInstallRoot ==
    [][pc = "copy_data_to_usr" =>
        /\ \A p \in Touched(fs, fs') : IsPrefix(install_root_dir, p)
        /\ error' = "" =>
               ContainedUnder(appdir_install_path \o <<"usr", "bin">>,
                              usr_bin_path(StagedExecWord(fs)))]_vars

====
